---------------------------- MODULE Spec2Model ----------------------------
(***************************************************************************)
(* A model of the string-interpolation library of format.hpp: the         *)
(* recursive-descent template parser (parseFormat / fmt), the type-erasing *)
(* dictionary (Dict), the rendering loop (format) and the per-type         *)
(* formatters it dispatches to.                                            *)
(*                                                                         *)
(* A C++ string is a sequence of one-character strings; a cursor          *)
(* `const char *p` into s.c_str() is a 1-based index, and reading the      *)
(* terminating zero is reading NUL.                                        *)
(***************************************************************************)
EXTENDS Integers, Sequences, FiniteSets, TLC

(***************************************************************************)
(* Bounds of the model.                                                    *)
(***************************************************************************)
\* longest template drawn exhaustively over Sigma
MaxLen == 5
\* longest raw text whose fully escaped form is parsed
MaxRaw == 2
\* deepest nesting of generated '{n:o:sub}' templates
MaxDepth == 2
\* most bind calls on one Dict in the Dict specification
MaxBinds == 3
\* most bind calls on the caller's Dict before a render
MaxRenderBinds == 2

(***************************************************************************)
(* Characters and strings.                                                 *)
(***************************************************************************)
NUL == "NUL"

\* the characters the exhaustive templates are drawn over: one ordinary
\* character and the four the grammar gives a meaning to
Sigma == {"a", "~", "{", "}", ":"}

RECURSIVE SeqsUpTo(_, _)
SeqsUpTo(S, n) ==
    IF n = 0 THEN {<<>>}
    ELSE LET shorter == SeqsUpTo(S, n - 1)
         IN  shorter \cup {Append(s, c) : s \in shorter, c \in S}

\* *p for the cursor p into s.c_str()
At(s, p) == IF p >= 1 /\ p <= Len(s) THEN s[p] ELSE NUL

(***************************************************************************)
(* Character codes: the arithmetic on `char` of the formatters.            *)
(***************************************************************************)
\* the printable characters, codes 32 to 126 (the double quote, the
\* backslash and the backtick are written by name)
Ascii == <<
    " ", "!", "DQUOTE", "#", "$", "%", "&", "'", "(", ")", "*", "+",
    ",", "-", ".", "/", "0", "1", "2", "3", "4", "5", "6", "7",
    "8", "9", ":", ";", "<", "=", ">", "?", "@", "A", "B", "C",
    "D", "E", "F", "G", "H", "I", "J", "K", "L", "M", "N", "O",
    "P", "Q", "R", "S", "T", "U", "V", "W", "X", "Y", "Z", "[",
    "BACKSLASH", "]", "^", "_", "BACKTICK", "a", "b", "c", "d", "e", "f", "g",
    "h", "i", "j", "k", "l", "m", "n", "o", "p", "q", "r", "s",
    "t", "u", "v", "w", "x", "y", "z", "{", "|", "}", "~"
>>

\* a character outside the table is written as '#' and its code
CharOf(code) ==
    IF code >= 32 /\ code <= 126 THEN Ascii[code - 31]
    ELSE "#" \o ToString(code)

CodeOf(c) ==
    IF \E i \in 1..Len(Ascii) : Ascii[i] = c
    THEN 31 + (CHOOSE i \in 1..Len(Ascii) : Ascii[i] = c)
    ELSE 0

\* `*p >= '0' && *p <= '9'`; the terminating zero is no digit
IsDigit(c) == c # NUL /\ CodeOf(c) >= 48 /\ CodeOf(c) <= 57

toupper(c) ==
    IF CodeOf(c) >= 97 /\ CodeOf(c) <= 122 THEN CharOf(CodeOf(c) - 32) ELSE c

tolower(c) ==
    IF CodeOf(c) >= 65 /\ CodeOf(c) <= 90 THEN CharOf(CodeOf(c) + 32) ELSE c

\* `while (*p >= '0' && *p <= '9') n = n * 10 + *p++ - '0';`
RECURSIVE ScanNumber(_, _, _)
ScanNumber(o, p, n) ==
    IF IsDigit(At(o, p))
    THEN ScanNumber(o, p + 1, n * 10 + CodeOf(At(o, p)) - 48)
    ELSE [p |-> p, n |-> n]

\* n copies of the character c
Copies(n, c) == [i \in 1..n |-> c]

\* std::string::substr(pos) and substr(pos, n), pos counted from 0
SubstrFrom(s, pos) == SubSeq(s, pos + 1, Len(s))
Substr(s, pos, n) ==
    SubSeq(s, pos + 1, IF pos + n < Len(s) THEN pos + n ELSE Len(s))

(***************************************************************************)
(* Field and Format (format.hpp 48-63).                                    *)
(***************************************************************************)
Field(name, options) ==
    [name |-> name, options |-> options, subformats |-> <<>>]

NoError == "none"
ErrCloseExpected == "'}' expected"
ErrFieldNotPresent == "Field not present"
ErrUnsupportedType == "Unsupported type"
ErrInvalidString == "Invalid format string"
ErrInvalidInt == "Invalid parameters for integer formatting"
ErrInvalidFloat == "Invalid floating point formatting options"

(***************************************************************************)
(* parseFormat (format.hpp 65-129).                                        *)
(***************************************************************************)
\* faulty variant of IsEscape: the test of p[1] left out
IsEscapeAtEnd(s, p) == At(s, p) = "~"

\* `*p == '~' && p[1]`: an escape pair; a '~' that ends the string is not one
IsEscape(s, p) == At(s, p) = "~" /\ At(s, p + 1) # NUL

\* the characters that end a static run
StaticStop(c) == c = "{" \/ c = "}"

\* the characters that end a name or an options string
FieldStop(c) == c = ":" \/ c = "}"

\* the loop over static text: returns the text and the cursor after it
RECURSIVE ScanStatic(_, _, _)
ScanStatic(s, p, sta) ==
    IF At(s, p) = NUL THEN [p |-> p, str |-> sta]
    ELSE IF IsEscape(s, p) THEN ScanStatic(s, p + 2, Append(sta, At(s, p + 1)))
    ELSE IF StaticStop(At(s, p)) THEN [p |-> p, str |-> sta]
    ELSE ScanStatic(s, p + 1, Append(sta, At(s, p)))

\* the loop over a field's name
RECURSIVE ScanName(_, _, _)
ScanName(s, p, name) ==
    IF At(s, p) = NUL THEN [p |-> p, str |-> name]
    ELSE IF IsEscape(s, p) THEN ScanName(s, p + 2, Append(name, At(s, p + 1)))
    ELSE IF FieldStop(At(s, p)) THEN [p |-> p, str |-> name]
    ELSE ScanName(s, p + 1, Append(name, At(s, p)))

\* faulty variant of ScanOptions: the escape rule left out of the options loop
RECURSIVE ScanOptionsNoEscape(_, _, _)
ScanOptionsNoEscape(s, p, options) ==
    IF At(s, p) = NUL THEN [p |-> p, str |-> options]
    ELSE IF FieldStop(At(s, p)) THEN [p |-> p, str |-> options]
    ELSE ScanOptionsNoEscape(s, p + 1, Append(options, At(s, p)))

\* the loop over a field's options, entered after a ':'
RECURSIVE ScanOptions(_, _, _)
ScanOptions(s, p, options) ==
    IF At(s, p) = NUL THEN [p |-> p, str |-> options]
    ELSE IF IsEscape(s, p) THEN ScanOptions(s, p + 2, Append(options, At(s, p + 1)))
    ELSE IF FieldStop(At(s, p)) THEN [p |-> p, str |-> options]
    ELSE ScanOptions(s, p + 1, Append(options, At(s, p)))

\* a non-empty static run goes to a new static Field, or to the last Field
\* when that one is static
AddStatic(result, last_static, sta) ==
    IF Len(sta) = 0 THEN result
    ELSE IF ~last_static
    THEN Append(result, Field(<<>>, sta))
    ELSE [result EXCEPT ![Len(result)].options = @ \o sta]

\* last_static after the static run
StaticFlag(last_static, sta) == IF Len(sta) > 0 THEN TRUE ELSE last_static

\* faulty variant of ParseContinues: the loop ends at a ':' as well
ParseContinuesToColon(c) == c # NUL /\ c # "}" /\ c # ":"

\* whether the outer loop of parseFormat runs once more
ParseContinues(c) == c # NUL /\ c # "}"

\* `if (*p != '}') throw`: the check after a field's name, options and
\* subformats
FieldIsClosed(s, p) == At(s, p) = "}"

RECURSIVE ParseLoop(_, _, _, _)
RECURSIVE ParseSubformats(_, _, _)
RECURSIVE SubformatParsed(_, _, _)

\* parseFormat(p): the Format, the cursor where parsing stopped, and the
\* exception thrown, if any
parseFormat(s, p) == ParseLoop(s, p, <<>>, FALSE)

\* `while (*p == ':') { p++; subformats.push_back(parseFormat(p)); }`
SubformatParsed(s, subformats, sub) ==
    IF sub.err # NoError
    THEN [p |-> sub.p, subformats |-> subformats, err |-> sub.err]
    ELSE ParseSubformats(s, sub.p, Append(subformats, sub.fs))

\* faulty variant of ParseSubformats: the `p++` over the ':' left out
ParseSubformatsKeepsColon(s, p, subformats) ==
    IF At(s, p) = ":"
    THEN SubformatParsed(s, subformats, parseFormat(s, p))
    ELSE [p |-> p, subformats |-> subformats, err |-> NoError]

ParseSubformats(s, p, subformats) ==
    IF At(s, p) = ":"
    THEN SubformatParsed(s, subformats, parseFormat(s, p + 1))
    ELSE [p |-> p, subformats |-> subformats, err |-> NoError]

\* the end of a field: the '}' check, the push of the Field, p++,
\* `last_static = false`; this ends the iteration of the outer loop
CloseField(s, result, name, options, sb) ==
    IF sb.err # NoError
    THEN [fs |-> <<>>, p |-> sb.p, err |-> sb.err, last_static |-> FALSE]
    ELSE IF ~FieldIsClosed(s, sb.p)
    THEN [fs |-> <<>>, p |-> sb.p, err |-> ErrCloseExpected,
          last_static |-> FALSE]
    ELSE [fs |-> Append(result,
                        [name |-> name, options |-> options,
                         subformats |-> sb.subformats]),
          p |-> sb.p + 1, err |-> NoError, last_static |-> FALSE]

\* `if (*p == ':')`: the options, then the subformats
FieldOptions(s, result, name, op) ==
    CloseField(s, result, name, op.str, ParseSubformats(s, op.p, <<>>))

\* the field after its name has been read
FieldAfterName(s, result, nm) ==
    IF At(s, nm.p) = ":"
    THEN FieldOptions(s, result, nm.str, ScanOptions(s, nm.p + 1, <<>>))
    ELSE CloseField(s, result, nm.str, <<>>,
                    [p |-> nm.p, subformats |-> <<>>, err |-> NoError])

\* the loop body after the static run st
AfterStatic(s, result, last_static, st) ==
    IF At(s, st.p) = "{"
    THEN FieldAfterName(s, AddStatic(result, last_static, st.str),
                        ScanName(s, st.p + 1, <<>>))
    ELSE [fs |-> AddStatic(result, last_static, st.str), p |-> st.p,
          err |-> NoError, last_static |-> StaticFlag(last_static, st.str)]

\* one iteration of `while (*p && *p != '}')`: the cursor, the result and
\* last_static after it, or the exception that left it
ParseIteration(s, p, result, last_static) ==
    AfterStatic(s, result, last_static, ScanStatic(s, p, <<>>))

\* the iterations after the iteration that ended in `it`
Iterated(s, it) ==
    IF it.err # NoError THEN [fs |-> <<>>, p |-> it.p, err |-> it.err]
    ELSE ParseLoop(s, it.p, it.fs, it.last_static)

\* `while (*p && *p != '}')`, then `return result`
ParseLoop(s, p, result, last_static) ==
    IF ~ParseContinues(At(s, p))
    THEN [fs |-> result, p |-> p, err |-> NoError]
    ELSE Iterated(s, ParseIteration(s, p, result, last_static))

\* fmt(s): parseFormat from the start of s; the cursor p is a local of fmt
\* and is dropped on return
fmt(s) == parseFormat(s, 1)

(***************************************************************************)
(* Formatter<std::string> (format.hpp 483-634).                            *)
(***************************************************************************)
\* the picture loop: each placeholder takes the next character of the
\* value, or the filler once the value is used up
RECURSIVE PictureLoop(_, _, _, _, _, _)
PictureLoop(o, p, x, s, pic, result) ==
    IF At(o, p) = NUL THEN result
    ELSE IF At(o, p) = pic.placeholder
    THEN IF At(x, s) # NUL
         THEN PictureLoop(o, p + 1, x, s + 1, pic, Append(result, At(x, s)))
         ELSE PictureLoop(o, p + 1, x, s, pic, Append(result, pic.filler))
    ELSE PictureLoop(o, p + 1, x, s, pic, Append(result, At(o, p)))

\* `if (*p == '=' && p[1]) { placeholder = p[1]; p += 2; }`
PicturePlaceholder(o, pic) ==
    IF At(o, pic.p) = "=" /\ At(o, pic.p + 1) # NUL
    THEN [pic EXCEPT !.placeholder = At(o, pic.p + 1), !.p = pic.p + 2]
    ELSE pic

\* faulty variant of PictureFiller: the filler is read and not kept
PictureFillerDropped(o, pic) ==
    IF At(o, pic.p) = "<" /\ At(o, pic.p + 1) # NUL
    THEN [pic EXCEPT !.p = pic.p + 2]
    ELSE pic

\* `if (*p == '<' && p[1]) { filler = p[1]; p += 2; }`
PictureFiller(o, pic) ==
    IF At(o, pic.p) = "<" /\ At(o, pic.p + 1) # NUL
    THEN [pic EXCEPT !.filler = At(o, pic.p + 1), !.p = pic.p + 2]
    ELSE pic

\* the picture's options: p starts after the '@'
PictureOptions(o) ==
    PictureFiller(o, PicturePlaceholder(o,
        [placeholder |-> "#", filler |-> " ", p |-> 2]))

PictureWith(x, o, pic) ==
    [err |-> NoError, s |-> PictureLoop(o, pic.p, x, 1, pic, <<>>)]

PictureFormat(x, o) == PictureWith(x, o, PictureOptions(o))

\* the locals of the general format with their initial values; p is the
\* cursor into the options
StringDefaults ==
    [width |-> 0, align |-> -1, filler |-> " ", overflow |-> NUL,
     upcase |-> NUL, strip |-> 0, escape |-> NUL, p |-> 1]

StringAlign(o, opt) ==
    IF At(o, opt.p) = "<" THEN [opt EXCEPT !.align = -1, !.p = opt.p + 1]
    ELSE IF At(o, opt.p) = "=" THEN [opt EXCEPT !.align = 0, !.p = opt.p + 1]
    ELSE IF At(o, opt.p) = ">" THEN [opt EXCEPT !.align = 1, !.p = opt.p + 1]
    ELSE opt

WidthScanned(opt, w) == [opt EXCEPT !.width = w.n, !.p = w.p]
StringWidth(o, opt) == WidthScanned(opt, ScanNumber(o, opt.p, 0))

StringFiller(o, opt) ==
    IF At(o, opt.p) = "=" /\ At(o, opt.p + 1) # NUL
    THEN [opt EXCEPT !.filler = At(o, opt.p + 1), !.p = opt.p + 2]
    ELSE opt

StringOverflow(o, opt) ==
    IF At(o, opt.p) = ">" /\ At(o, opt.p + 1) # NUL
    THEN [opt EXCEPT !.overflow = At(o, opt.p + 1), !.p = opt.p + 2]
    ELSE opt

StringUpcase(o, opt) ==
    IF At(o, opt.p) = "U" \/ At(o, opt.p) = "l"
    THEN [opt EXCEPT !.upcase = At(o, opt.p), !.p = opt.p + 1]
    ELSE opt

\* `if (*p == 's') { p++; ... }`: the cursor moves past the 's' only
StringStrip(o, opt) ==
    IF At(o, opt.p) = "s"
    THEN [opt EXCEPT !.strip = IF At(o, opt.p + 1) = "L" THEN 1
                               ELSE IF At(o, opt.p + 1) = "R" THEN 2
                               ELSE 3,
                     !.p = opt.p + 1]
    ELSE opt

StringEscape(o, opt) ==
    IF At(o, opt.p) = "/" /\ At(o, opt.p + 1) = "C"
    THEN [opt EXCEPT !.escape = "C", !.p = opt.p + 2]
    ELSE opt

\* the options of the general format, read in their fixed order
StringOptions(o) ==
    StringEscape(o, StringStrip(o, StringUpcase(o, StringOverflow(o,
        StringFiller(o, StringWidth(o, StringAlign(o, StringDefaults)))))))

\* `while (i < sz && result[i] == ' ') i++;`
RECURSIVE LeadingSpaces(_, _)
LeadingSpaces(result, i) ==
    IF i < Len(result) /\ result[i + 1] = " "
    THEN LeadingSpaces(result, i + 1)
    ELSE i

\* `while (sz && result[sz-1] == ' ') --sz;`
RECURSIVE WithoutTrailingSpaces(_, _)
WithoutTrailingSpaces(result, sz) ==
    IF sz > 0 /\ result[sz] = " "
    THEN WithoutTrailingSpaces(result, sz - 1)
    ELSE sz

\* `if (strip & 1)`
StripLeading(result, strip) ==
    IF strip \in {1, 3}
    THEN SubstrFrom(result, LeadingSpaces(result, 0))
    ELSE result

\* `if (strip & 2)`
StripTrailing(result, strip) ==
    IF strip \in {2, 3}
    THEN Substr(result, 0, WithoutTrailingSpaces(result, Len(result)))
    ELSE result

\* faulty variant of StringPadOnce: the two sides of the padding exchanged
StringPadOnceOtherSide(result, width, align, filler) ==
    IF Len(result) + 1 < width /\ align = 0
    THEN <<filler>> \o result \o <<filler>>
    ELSE IF align # -1 THEN Append(result, filler)
    ELSE <<filler>> \o result

\* faulty variant of StringPadOnce: the insert at the front tests `align == 1`,
\* so the odd filler of a centred text goes after it
StringPadOnceOddAfter(result, width, align, filler) ==
    IF Len(result) + 1 < width /\ align = 0
    THEN <<filler>> \o result \o <<filler>>
    ELSE IF align = 1 THEN <<filler>> \o result
    ELSE Append(result, filler)

\* one round of the padding loop
StringPadOnce(result, width, align, filler) ==
    IF Len(result) + 1 < width /\ align = 0
    THEN <<filler>> \o result \o <<filler>>
    ELSE IF align # -1 THEN <<filler>> \o result
    ELSE Append(result, filler)

\* the padding loop of the string formatter: `result` grows to `width`
RECURSIVE StringPadLoop(_, _, _, _)
StringPadLoop(result, width, align, filler) ==
    IF Len(result) < width
    THEN StringPadLoop(StringPadOnce(result, width, align, filler),
                       width, align, filler)
    ELSE result

\* truncation or padding to the width
StringSized(result, opt) ==
    IF opt.width > 0
    THEN IF Len(result) > opt.width
         THEN Substr(result, 0, opt.width)
         ELSE StringPadLoop(result, opt.width, opt.align, opt.filler)
    ELSE result

\* the case conversion
StringCased(result, upcase) ==
    IF upcase = "U" THEN [i \in 1..Len(result) |-> toupper(result[i])]
    ELSE IF upcase = "l" THEN [i \in 1..Len(result) |-> tolower(result[i])]
    ELSE result

\* the overflow check on the stripped text, then padding and case
StringFormatted(result, opt) ==
    IF opt.width > 0 /\ opt.overflow # NUL /\ Len(result) > opt.width
    THEN [err |-> NoError, s |-> Copies(opt.width, opt.overflow)]
    ELSE [err |-> NoError,
          s |-> StringCased(StringSized(result, opt), opt.upcase)]

GeneralWith(x, o, opt) ==
    IF At(o, opt.p) # NUL
    THEN [err |-> ErrInvalidString, s |-> <<>>]
    ELSE StringFormatted(StripTrailing(StripLeading(x, opt.strip), opt.strip),
                         opt)

GeneralFormat(x, o) == GeneralWith(x, o, StringOptions(o))

FormatString(x, field) ==
    IF Len(field.options) > 0 /\ field.options[1] = "@"
    THEN PictureFormat(x, field.options)
    ELSE GeneralFormat(x, field.options)

(***************************************************************************)
(* Formatter<int> (format.hpp 666-845).                                    *)
(***************************************************************************)
\* the most negative int, -2^31
MinInt == -2147483647 - 1

\* `x = -x` in 32-bit two's complement: the most negative value stays
Negate(x) == IF x = MinInt THEN MinInt ELSE 0 - x

\* x / base and x % base of C++: the quotient truncated toward zero
CDiv(x, b) ==
    IF x >= 0 \/ x % b = 0 THEN x \div b ELSE (x \div b) + 1
CRem(x, b) == x - b * CDiv(x, b)

\* the locals of the integer format with their initial values; p is the
\* cursor into the options
IntDefaults ==
    [align |-> 1, plus |-> 0, filler |-> " ", width |-> 0,
     overflowchar |-> NUL, base |-> 10, dsep |-> 0, dsepchar |-> ",",
     upcase |-> 0, p |-> 1]

IntAlign(o, opt) ==
    IF At(o, opt.p) = "<" THEN [opt EXCEPT !.align = -1, !.p = opt.p + 1]
    ELSE IF At(o, opt.p) = "=" THEN [opt EXCEPT !.align = 0, !.p = opt.p + 1]
    ELSE IF At(o, opt.p) = ">" THEN [opt EXCEPT !.align = 1, !.p = opt.p + 1]
    ELSE opt

IntPlus(o, opt) ==
    IF At(o, opt.p) = "+" THEN [opt EXCEPT !.plus = 1, !.p = opt.p + 1]
    ELSE opt

IntFiller(o, opt) ==
    IF At(o, opt.p) = "=" /\ At(o, opt.p + 1) # NUL
    THEN [opt EXCEPT !.filler = At(o, opt.p + 1), !.p = opt.p + 2]
    ELSE IF At(o, opt.p) = "0"
    THEN [opt EXCEPT !.filler = "0", !.p = opt.p + 1]
    ELSE opt

IntWidth(o, opt) == WidthScanned(opt, ScanNumber(o, opt.p, 0))

IntOverflow(o, opt) ==
    IF At(o, opt.p) = ">" /\ At(o, opt.p + 1) # NUL
    THEN [opt EXCEPT !.overflowchar = At(o, opt.p + 1), !.p = opt.p + 2]
    ELSE opt

\* '/' digits ['U']
BaseScanned(o, opt, b) ==
    IF At(o, b.p) = "U"
    THEN [opt EXCEPT !.base = b.n, !.upcase = 1, !.p = b.p + 1]
    ELSE [opt EXCEPT !.base = b.n, !.p = b.p]

\* faulty variant of IntBase: 'X' selects base 16 without the upper case
IntBaseLowerX(o, opt) ==
    IF At(o, opt.p) = "/" THEN BaseScanned(o, opt, ScanNumber(o, opt.p + 1, 0))
    ELSE IF At(o, opt.p) = "x" \/ At(o, opt.p) = "X"
    THEN [opt EXCEPT !.base = 16, !.p = opt.p + 1]
    ELSE opt

IntBase(o, opt) ==
    IF At(o, opt.p) = "/" THEN BaseScanned(o, opt, ScanNumber(o, opt.p + 1, 0))
    ELSE IF At(o, opt.p) = "x" THEN [opt EXCEPT !.base = 16, !.p = opt.p + 1]
    ELSE IF At(o, opt.p) = "X"
    THEN [opt EXCEPT !.base = 16, !.upcase = 1, !.p = opt.p + 1]
    ELSE opt

\* ',' digits [sepchar]
GroupScanned(o, opt, g) ==
    IF At(o, g.p) # NUL
    THEN [opt EXCEPT !.dsep = IF g.n = 0 THEN 3 ELSE g.n,
                     !.dsepchar = At(o, g.p), !.p = g.p + 1]
    ELSE [opt EXCEPT !.dsep = IF g.n = 0 THEN 3 ELSE g.n, !.p = g.p]

IntGroup(o, opt) ==
    IF At(o, opt.p) = ","
    THEN GroupScanned(o, opt, ScanNumber(o, opt.p + 1, 0))
    ELSE opt

\* the options of the integer format, read in their fixed order
IntOptions(o) ==
    IntGroup(o, IntBase(o, IntOverflow(o, IntWidth(o, IntFiller(o,
        IntPlus(o, IntAlign(o, IntDefaults)))))))

\* one digit character
DigitChar(d, upcase) ==
    IF d < 10 THEN CharOf(48 + d)
    ELSE IF upcase = 1 THEN CharOf(65 + (d - 10))
    ELSE CharOf(97 + (d - 10))

\* faulty variant of DigitSeparated: the test `x != 0` left out
DigitSeparatedAtEnd(x, opt, digits) == digits + 1 = opt.dsep

\* `if (++digits == dsep && x != 0)` after the digit of x has been emitted
DigitSeparated(x, opt, digits) ==
    digits + 1 = opt.dsep /\ CDiv(x, opt.base) # 0

\* the state after one round of the digit loop
DigitStep(x, opt, st) ==
    IF DigitSeparated(x, opt, st.digits)
    THEN [result |-> st.result
                       \o <<DigitChar(CRem(x, opt.base), opt.upcase),
                            opt.dsepchar>>,
          digits |-> 0, count |-> st.count + 2]
    ELSE [result |-> Append(st.result, DigitChar(CRem(x, opt.base), opt.upcase)),
          digits |-> st.digits + 1, count |-> st.count + 1]

\* the do-while loop that emits the digits, least significant first
RECURSIVE DigitLoop(_, _, _)
DigitLoop(x, opt, st) ==
    IF CDiv(x, opt.base) # 0
    THEN DigitLoop(CDiv(x, opt.base), opt, DigitStep(x, opt, st))
    ELSE DigitStep(x, opt, st)

\* one round of the fill with '0'
ZeroFillStep(opt, limit, st) ==
    IF st.digits + 1 = opt.dsep /\ st.count + 1 < limit - 1
    THEN [result |-> st.result \o <<"0", opt.dsepchar>>,
          digits |-> 0, count |-> st.count + 2]
    ELSE [result |-> Append(st.result, "0"),
          digits |-> st.digits + 1, count |-> st.count + 1]

\* the fill with '0' ahead of the sign, up to `limit` characters
RECURSIVE ZeroFillLoop(_, _, _)
ZeroFillLoop(opt, limit, st) ==
    IF st.count < limit
    THEN ZeroFillLoop(opt, limit, ZeroFillStep(opt, limit, st))
    ELSE st

\* `neg | plus`
SignColumn(neg, opt) == IF neg = 1 \/ opt.plus = 1 THEN 1 ELSE 0

\* faulty variant of ZeroFilled: the sign column is not held back
ZeroFilledToWidth(neg, opt, st) ==
    IF opt.align = 1 /\ opt.filler = "0"
    THEN ZeroFillLoop(opt, opt.width, st)
    ELSE st

\* `if (align == 1 && filler == '0')`
ZeroFilled(neg, opt, st) ==
    IF opt.align = 1 /\ opt.filler = "0"
    THEN ZeroFillLoop(opt, opt.width - SignColumn(neg, opt), st)
    ELSE st

\* the sign, appended to the reversed buffer
Signed(neg, opt, st) ==
    IF neg = 1
    THEN [result |-> Append(st.result, "-"), count |-> st.count + 1]
    ELSE IF opt.plus = 1
    THEN [result |-> Append(st.result, "+"), count |-> st.count + 1]
    ELSE [result |-> st.result, count |-> st.count]

\* faulty variant of IntPadOnce: the two sides of the padding exchanged
IntPadOnceOtherSide(st, opt) ==
    IF opt.align = 0 /\ st.count + 1 < opt.width
    THEN [result |-> <<opt.filler>> \o st.result \o <<opt.filler>>,
          count |-> st.count + 2]
    ELSE IF opt.align # 1
    THEN [result |-> Append(st.result, opt.filler), count |-> st.count + 1]
    ELSE [result |-> <<opt.filler>> \o st.result, count |-> st.count + 1]

\* one round of the padding loop, on the reversed buffer
IntPadOnce(st, opt) ==
    IF opt.align = 0 /\ st.count + 1 < opt.width
    THEN [result |-> <<opt.filler>> \o st.result \o <<opt.filler>>,
          count |-> st.count + 2]
    ELSE IF opt.align # 1
    THEN [result |-> <<opt.filler>> \o st.result, count |-> st.count + 1]
    ELSE [result |-> Append(st.result, opt.filler), count |-> st.count + 1]

RECURSIVE IntPadLoop(_, _)
IntPadLoop(st, opt) ==
    IF st.count < opt.width THEN IntPadLoop(IntPadOnce(st, opt), opt) ELSE st

\* the final swap loop over result[0 .. count-1]
Flip(result, count) ==
    [i \in 1..Len(result) |->
        IF i <= count THEN result[count + 1 - i] ELSE result[i]]
Flipped(st) == Flip(st.result, st.count)

\* faulty variant of IntAligned: a rendering longer than the width is cut
\* to the width instead of being replaced by the overflow char
IntAlignedTruncates(st, opt) ==
    IF opt.width # 0 /\ st.count > opt.width /\ opt.overflowchar # NUL
    THEN [err |-> NoError, s |-> SubSeq(Flipped(st), 1, opt.width)]
    ELSE IF opt.width # 0 /\ st.count < opt.width
    THEN [err |-> NoError, s |-> Flipped(IntPadLoop(st, opt))]
    ELSE [err |-> NoError, s |-> Flipped(st)]

\* `if (width) { ... }` and the flip
IntAligned(st, opt) ==
    IF opt.width # 0 /\ st.count > opt.width /\ opt.overflowchar # NUL
    THEN [err |-> NoError, s |-> Copies(opt.width, opt.overflowchar)]
    ELSE IF opt.width # 0 /\ st.count < opt.width
    THEN [err |-> NoError, s |-> Flipped(IntPadLoop(st, opt))]
    ELSE [err |-> NoError, s |-> Flipped(st)]

\* the digits, the zero fill, the sign and the alignment of the magnitude x
IntRendered(x, neg, opt) ==
    IntAligned(
        Signed(neg, opt,
               ZeroFilled(neg, opt,
                          DigitLoop(x, opt,
                                    [result |-> <<>>, digits |-> 0,
                                     count |-> 0]))),
        opt)

\* faulty variant of IntWith: what is left of the options is not looked at
IntWithIgnoresRest(xx, o, opt) ==
    IF opt.base < 2 \/ opt.base > 36
    THEN [err |-> ErrInvalidInt, s |-> <<>>]
    ELSE IF xx < 0 THEN IntRendered(Negate(xx), 1, opt)
    ELSE IntRendered(xx, 0, opt)

IntWith(xx, o, opt) ==
    IF opt.base < 2 \/ opt.base > 36 \/ At(o, opt.p) # NUL
    THEN [err |-> ErrInvalidInt, s |-> <<>>]
    ELSE IF xx < 0 THEN IntRendered(Negate(xx), 1, opt)
    ELSE IntRendered(xx, 0, opt)

FormatInt(xx, field) == IntWith(xx, field.options, IntOptions(field.options))

(***************************************************************************)
(* Values a caller binds.  `type` is the static type T of the bind call,   *)
(* which selects the Formatter<T> specialisation; a type with none (P3d of *)
(* test_format.cpp) is "unsupported".                                      *)
(***************************************************************************)
IntValue(n) == [type |-> "int", int |-> n, str |-> <<>>, elems |-> <<>>]
StringValue(s) == [type |-> "string", int |-> 0, str |-> s, elems |-> <<>>]
UnsupportedValue == [type |-> "unsupported", int |-> 0, str |-> <<>>, elems |-> <<>>]
SequenceValue(xs) == [type |-> "sequence", int |-> 0, str |-> <<>>, elems |-> xs]
PairValue(a, b) == [type |-> "pair", int |-> 0, str |-> <<>>, elems |-> <<a, b>>]
\* a double, kept as the decimal numeral the caller wrote for it
DoubleValue(numeral) ==
    [type |-> "double", int |-> 0, str |-> numeral, elems |-> <<>>]
\* a std::vector, std::list, std::set or std::map, with its elements in the
\* order begin()..end() visits them; the elements of a map are its
\* (key, value) pairs
ContainerKinds == {"vector", "list", "set", "map"}
ContainerValue(kind, xs) ==
    [type |-> kind, int |-> 0, str |-> <<>>, elems |-> xs]

(***************************************************************************)
(* Dict (format.hpp 203-247).  env maps a name to the address of its       *)
(* ValueWrapper; heap[a] is the wrapper allocated a-th, with the number of *)
(* times it has been deleted.                                              *)
(***************************************************************************)
NewDict == [env |-> <<>>, heap |-> <<>>]

\* new ValueWrapper<T>(value)
Allocate(heap, value) == Append(heap, [x |-> value, deleted |-> 0])

\* delete of the wrapper at address a
Delete(heap, a) == [heap EXCEPT ![a].deleted = @ + 1]

\* the branch for a new name: `env[name] = new ValueWrapper<T>(value)`
BindNew(d, name, heap1) ==
    [env |-> [n \in DOMAIN d.env \cup {name} |->
                 IF n = name THEN Len(heap1) ELSE d.env[n]],
     heap |-> heap1]

\* faulty variant of Rebind: the entry keeps the old wrapper and the new one is
\* deleted
RebindKeepsOld(d, name, heap1) ==
    [env |-> d.env, heap |-> Delete(heap1, Len(heap1))]

\* faulty variant of Rebind: the old wrapper is never deleted
RebindLeaksOld(d, name, heap1) ==
    [env |-> [d.env EXCEPT ![name] = Len(heap1)], heap |-> heap1]

\* the branch for a name already bound: the new wrapper is allocated, the
\* old one deleted, and the entry set to the new one
Rebind(d, name, heap1) ==
    [env |-> [d.env EXCEPT ![name] = Len(heap1)],
     heap |-> Delete(heap1, d.env[name])]

\* Dict::operator()(name, value)
DictBind(d, name, value) ==
    IF name \notin DOMAIN d.env
    THEN BindNew(d, name, Allocate(d.heap, value))
    ELSE Rebind(d, name, Allocate(d.heap, value))

\* Dict::operator[](name): the address of the wrapper, or the exception
DictLookup(d, name) ==
    IF name \notin DOMAIN d.env
    THEN [err |-> ErrFieldNotPresent, ptr |-> 0]
    ELSE [err |-> NoError, ptr |-> d.env[name]]

\* Dict::~Dict(): every wrapper env points to is deleted
DictDestroy(d) ==
    [env |-> d.env,
     heap |-> [a \in 1..Len(d.heap) |->
                  IF \E n \in DOMAIN d.env : d.env[n] = a
                  THEN [d.heap[a] EXCEPT !.deleted = @ + 1]
                  ELSE d.heap[a]]]

(***************************************************************************)
(* format and the formatters that call it (format.hpp 160-168, 187-201,    *)
(* 255-355).                                                               *)
(***************************************************************************)
\* the default subformats, parsed on each use
DefaultElementFormat == fmt(<<"{", "*", "}">>).fs
DefaultPairFormat ==
    fmt(<<"(", "{", "*", "1", "}", ",", " ", "{", "*", "2", "}", ")">>).fs

\* faulty variant of AppendContribution: the text goes in front of the result
PrependContribution(result, text) == text \o result

\* `result += ...` of the format loop
AppendContribution(result, text) == result \o text

\* `if (f.name.size())`: the Field is read from the Dict
IsDynamic(f) == Len(f.name) > 0

\* whether Formatter<T> is one of the specialisations of format.hpp
HasFormatter(type) ==
    type \in {"int", "string", "sequence", "pair", "double"} \cup ContainerKinds

RECURSIVE FormatLoop(_, _, _, _)
RECURSIVE SequenceLoop(_, _, _, _, _, _)
RECURSIVE toString(_, _)
RECURSIVE FieldRendered(_, _, _, _, _)

\* faulty variant of format: every binding of the Dict must be renderable, whether
\* a Field references it or not
formatChecksEveryBinding(fs, fd) ==
    IF \E a \in 1..Len(fd.heap) : ~HasFormatter(fd.heap[a].x.type)
    THEN [err |-> ErrUnsupportedType, s |-> <<>>]
    ELSE FormatLoop(fs, fd, 1, <<>>)

\* format(fs, fd): the string, or the exception that left the loop
format(fs, fd) == FormatLoop(fs, fd, 1, <<>>)

\* `result += fd[f.name].toString(f)` with the rendering r
FieldRendered(fs, fd, i, result, r) ==
    IF r.err # NoError THEN [err |-> r.err, s |-> <<>>]
    ELSE FormatLoop(fs, fd, i + 1, AppendContribution(result, r.s))

\* faulty variant of FieldLookedUp: a Field whose name is not bound is skipped
FieldLookedUpSkipsMissing(fs, fd, i, result, w) ==
    IF w.err # NoError THEN FormatLoop(fs, fd, i + 1, result)
    ELSE FieldRendered(fs, fd, i, result, toString(fd.heap[w.ptr].x, fs[i]))

\* `fd[f.name]` with the outcome w of the lookup
FieldLookedUp(fs, fd, i, result, w) ==
    IF w.err # NoError THEN [err |-> w.err, s |-> <<>>]
    ELSE FieldRendered(fs, fd, i, result, toString(fd.heap[w.ptr].x, fs[i]))

FormatLoop(fs, fd, i, result) ==
    IF i > Len(fs) THEN [err |-> NoError, s |-> result]
    ELSE IF IsDynamic(fs[i])
    THEN FieldLookedUp(fs, fd, i, result, DictLookup(fd, fs[i].name))
    ELSE FormatLoop(fs, fd, i + 1, AppendContribution(result, fs[i].options))

\* faulty variant of ElementJoined: the separator follows every element, the
\* last one too
ElementJoinedAlways(xs, i, options, result, text) ==
    result \o text \o options

\* `++i; if (i != e) result += field.options;`
ElementJoined(xs, i, options, result, text) ==
    IF i + 1 <= Len(xs) THEN result \o text \o options ELSE result \o text

\* `result += fs % element` with the rendering r of element i
ElementRendered(xs, i, fs, options, element, result, r) ==
    IF r.err # NoError THEN [err |-> r.err, s |-> <<>>]
    ELSE SequenceLoop(xs, i + 1, fs, options, element,
                      ElementJoined(xs, i, options, result, r.s))

\* `element("*", *i)` done: element is the Dict after the bind
ElementBound(xs, i, fs, options, element, result) ==
    ElementRendered(xs, i, fs, options, element, result, format(fs, element))

\* Formatter< Sequence<T> >::toString: the loop over the elements, each
\* bound to '*' in the one Dict `element`
SequenceLoop(xs, i, fs, options, element, result) ==
    IF i > Len(xs) THEN [err |-> NoError, s |-> result]
    ELSE ElementBound(xs, i, fs, options,
                      DictBind(element, <<"*">>, xs[i]), result)

\* the Format used for the elements
ElementFormat(field) ==
    IF Len(field.subformats) > 0
    THEN field.subformats[1]
    ELSE DefaultElementFormat

\* faulty variant of FormatSequence: the Dict of the elements starts from the
\* Dict the enclosing container rendered its body against
FormatSequenceKeepsC(xx, field) ==
    SequenceLoop(xx, 1, ElementFormat(field), field.options,
                 DictBind(NewDict, <<"c">>, SequenceValue(xx)), <<>>)

FormatSequence(xx, field) ==
    SequenceLoop(xx, 1, ElementFormat(field), field.options, NewDict, <<>>)

\* the Format used for a pair
PairFormat(field) ==
    IF Len(field.subformats) > 0
    THEN field.subformats[1]
    ELSE DefaultPairFormat

\* Formatter< std::pair<T1, T2> >::toString
FormatPair(x, field) ==
    format(PairFormat(field),
           DictBind(DictBind(NewDict, <<"*", "1">>, x[1]),
                    <<"*", "2">>, x[2]))

(***************************************************************************)
(* The container formatters (format.hpp 376-409).                          *)
(***************************************************************************)
\* BEGIN, SEP and END of the four uses of DEF_CONTAINER_FORMATTER
ContainerBegin(kind) ==
    IF kind = "vector" THEN <<"[">>
    ELSE IF kind = "list" THEN <<"(">>
    ELSE IF kind = "set" THEN <<"{">>
    ELSE <<"{", "|">>

\* faulty variant of ContainerSep: every kind is given the SEP of the vector
ContainerSepOfVector(kind) == <<",", " ">>

ContainerSep(kind) ==
    IF kind = "vector" THEN <<",", " ">>
    ELSE IF kind = "list" THEN <<" ">>
    ELSE IF kind = "set" THEN <<",", " ">>
    ELSE <<",", " ", ":", "{", "*", ":", ":", "{", "*", "1", "}",
           " ", "-", ">", " ", "{", "*", "2", "}", "}">>

ContainerEnd(kind) ==
    IF kind = "vector" THEN <<"]">>
    ELSE IF kind = "list" THEN <<")">>
    ELSE IF kind = "set" THEN <<"}">>
    ELSE <<"|", "}">>

\* `fmt("{c:" SEP "}")`, parsed on each use
ContainerDefaultFormat(kind) ==
    fmt(<<"{", "c", ":">> \o ContainerSep(kind) \o <<"}">>).fs

\* the Format the container is rendered through
ContainerFormat(kind, field) ==
    IF Len(field.subformats) > 0
    THEN field.subformats[1]
    ELSE ContainerDefaultFormat(kind)

\* `sz ? field.options.substr(0, sz/2) : BEGIN`
ContainerOpen(kind, options) ==
    IF Len(options) # 0
    THEN Substr(options, 0, Len(options) \div 2)
    ELSE ContainerBegin(kind)

\* `sz ? field.options.substr((sz - sz/2)) : END`
ContainerClose(kind, options) ==
    IF Len(options) # 0
    THEN SubstrFrom(options, Len(options) - Len(options) \div 2)
    ELSE ContainerEnd(kind)

\* the three `result` statements with the rendering r of the body
ContainerWith(kind, options, r) ==
    IF r.err # NoError THEN [err |-> r.err, s |-> <<>>]
    ELSE [err |-> NoError,
          s |-> ContainerOpen(kind, options) \o r.s
                \o ContainerClose(kind, options)]

\* Formatter< CT<T> >::toString: the body is rendered against
\* `Dict()("c", sequence(x))`
FormatContainer(v, field) ==
    ContainerWith(v.type, field.options,
                  format(ContainerFormat(v.type, field),
                         DictBind(NewDict, <<"c">>, SequenceValue(v.elems))))

(***************************************************************************)
(* Formatter<double> (format.hpp 425-451).                                 *)
(***************************************************************************)
\* `if (*p == '+') p++;`
DoubleSign(o, p) == IF At(o, p) = "+" THEN p + 1 ELSE p

\* `while (*p >= '0' && *p <= '9') p++;`
RECURSIVE DoubleDigits(_, _)
DoubleDigits(o, p) == IF IsDigit(At(o, p)) THEN DoubleDigits(o, p + 1) ELSE p

\* `if (*p == '.') { p++; while (...) p++; }`
DoubleFraction(o, p) == IF At(o, p) = "." THEN DoubleDigits(o, p + 1) ELSE p

\* faulty variant of DoubleConversion: only 'f' is taken as a conversion
DoubleConversionOnlyF(o, p) == IF At(o, p) = "f" THEN p + 1 ELSE p

\* `if (*p == 'f' || *p == 'g') p++;`
DoubleConversion(o, p) ==
    IF At(o, p) = "f" \/ At(o, p) = "g" THEN p + 1 ELSE p

\* the cursor after the safety check
DoubleChecked(o) ==
    DoubleConversion(o, DoubleFraction(o, DoubleDigits(o, DoubleSign(o, 1))))

\* `if (opt[opt.size()-1] != 'f' && opt[opt.size()-1] != 'g') opt += "f";`
DoubleConversionAdded(opt) ==
    IF opt[Len(opt)] # "f" /\ opt[Len(opt)] # "g"
    THEN opt \o <<"f">>
    ELSE opt

\* `std::string opt = std::string("%") + field.options;` and the line after
DoubleDirective(options) == DoubleConversionAdded(<<"%">> \o options)

\* `snprintf(buf, sizeof(buf), opt.c_str(), x)`: the characters written are
\* the C library's; the model keeps the call, as the directive followed by
\* the argument in parentheses
Snprintf(opt, x) == opt \o <<"(">> \o x \o <<")">>

\* Formatter<double>::toString
FormatDouble(x, field) ==
    IF At(field.options, DoubleChecked(field.options)) # NUL
    THEN [err |-> ErrInvalidFloat, s |-> <<>>]
    ELSE [err |-> NoError, s |-> Snprintf(DoubleDirective(field.options), x)]

\* ValueWrapper<T>::toString: Formatter<T>().toString(x, field)
toString(v, field) ==
    IF ~HasFormatter(v.type) THEN [err |-> ErrUnsupportedType, s |-> <<>>]
    ELSE IF v.type = "int" THEN FormatInt(v.int, field)
    ELSE IF v.type = "string" THEN FormatString(v.str, field)
    ELSE IF v.type = "sequence" THEN FormatSequence(v.elems, field)
    ELSE IF v.type = "pair" THEN FormatPair(v.elems, field)
    ELSE IF v.type = "double" THEN FormatDouble(v.str, field)
    ELSE FormatContainer(v, field)

(***************************************************************************)
(* Inputs: the templates handed to fmt and the bindings handed to a Dict.  *)
(***************************************************************************)
\* every character of r escaped with '~'
RECURSIVE EscapeAll(_)
EscapeAll(r) ==
    IF r = <<>> THEN <<>> ELSE <<"~", Head(r)>> \o EscapeAll(Tail(r))

RawTexts == SeqsUpTo(Sigma, MaxRaw) \ {<<>>}

\* fully escaped text as static text, as a field's name, as its options
EscapedStatic(r) == EscapeAll(r)
EscapedName(r) == <<"{">> \o EscapeAll(r) \o <<"}">>
EscapedOptions(r) == <<"{", "a", ":">> \o EscapeAll(r) \o <<"}">>

EscapeTemplates ==
    {EscapedStatic(r) : r \in RawTexts} \cup {EscapedName(r) : r \in RawTexts}
        \cup {EscapedOptions(r) : r \in RawTexts}

\* '{' name ':' options ':' sub '}'
Wrap(name, options, sub) ==
    <<"{">> \o name \o <<":">> \o options \o <<":">> \o sub \o <<"}">>

NestNames == {<<"a">>, <<"v", "e", "c">>}
NestOptions == {<<>>, <<"+", "4">>}
NestLeaves ==
    {<<>>, <<"a">>, <<"{", "x", "}">>, <<"a", ":", "a">>,
     <<"{", "x", ":", "+", "4", "}">>, <<"{", "x", "}", "-", "{", "y", "}">>}

RECURSIVE Nested(_)
Nested(depth) ==
    IF depth = 0 THEN NestLeaves
    ELSE LET inner == Nested(depth - 1)
         IN  inner \cup {Wrap(n, o, sub) :
                            n \in NestNames, o \in NestOptions, sub \in inner}

\* the templates of the grammar comment, of section 8 and of test_format.cpp
TplEscapedBraces == <<"a", "~", "{", "b", "~", "}", "c">>
TplEscapedTilde == <<"x", "~", "~", "y">>
TplVec == <<"{", "v", "e", "c", ":", ":", "{", "x", ":", "+", "4", "}", "}">>
TplMac == <<"{", "m", "a", "c", ":", "1", "7", "x", ",", "2", "~", ":", "}">>
TplMap ==
    <<"{", "m", ":", ",", " ", ":", "{", "*", ":", ":",
      "{", "*", "1", "}", " ", "-", ">", " ", "{", "*", "2", "}", "}", "}">>
TplUnknown == <<"{", "y", "}">>
TplTwoSubformats == <<"{", "n", ":", "o", ":", "A", ":", "B", "}">>

ExampleTemplates ==
    {TplEscapedBraces, TplEscapedTilde, TplVec, TplMac, TplMap, TplUnknown,
     TplTwoSubformats}

NestedTemplates == Nested(MaxDepth)

Templates ==
    SeqsUpTo(Sigma, MaxLen) \cup EscapeTemplates \cup NestedTemplates
        \cup ExampleTemplates

\* the pieces the rendered templates are put together from
RenderPieces ==
    {<<>>, <<"x">>, <<"{", "a", "}">>, <<"{", "m", "}">>,
     <<"{", "a", ":", ">", "3", "}">>, <<"{", ":", "a", "}">>,
     <<"{", "m", ":", ",", ":", "<", "{", "*", "}", ">", "}">>}

\* "x{a}-{m}y"
TplMixed ==
    <<"x", "{", "a", "}", "-", "{", "m", "}", "y">>

RenderTemplates ==
    {p \o q : p \in RenderPieces, q \in RenderPieces}
        \cup {TplEscapedBraces, TplEscapedTilde, TplMap, TplUnknown, TplMixed}

\* the map of test_format.cpp as the sequence of its first two entries
PairsI_II ==
    SequenceValue(<<PairValue(StringValue(<<"I">>), IntValue(1)),
                    PairValue(StringValue(<<"I", "I">>), IntValue(2))>>)

RenderNames == {<<"a">>, <<"m">>}
RenderValues ==
    {IntValue(7), StringValue(<<"h", "i">>), UnsupportedValue, PairsI_II,
     SequenceValue(<<UnsupportedValue>>)}

DictNames == {<<"a">>, <<"b">>}
DictValues == {IntValue(1), IntValue(2), UnsupportedValue}

\* the template "{n:options}", every character of the options escaped
FieldTemplate(o) == <<"{", "n", ":">> \o EscapeAll(o) \o <<"}">>

\* the parts an integer option text is put together from, each with the
\* meaning the option grammar gives it
IntAligns ==
    {[t |-> <<>>, align |-> ">"], [t |-> <<"<">>, align |-> "<"],
     [t |-> <<"=">>, align |-> "="], [t |-> <<">">>, align |-> ">"]}
IntPluses == {[t |-> <<>>, plus |-> FALSE], [t |-> <<"+">>, plus |-> TRUE]}
IntFillers ==
    {[t |-> <<>>, filler |-> " "], [t |-> <<"0">>, filler |-> "0"],
     [t |-> <<"=", "0">>, filler |-> "0"], [t |-> <<"=", "*">>, filler |-> "*"]}
IntWidths ==
    {[t |-> <<>>, width |-> 0], [t |-> <<"4">>, width |-> 4],
     [t |-> <<"9">>, width |-> 9]}
IntOverflows ==
    {[t |-> <<>>, overflow |-> NUL], [t |-> <<">", "#">>, overflow |-> "#"]}
IntBases ==
    {[t |-> <<>>, base |-> 10, upcase |-> FALSE],
     [t |-> <<"x">>, base |-> 16, upcase |-> FALSE],
     [t |-> <<"X">>, base |-> 16, upcase |-> TRUE],
     [t |-> <<"/", "2">>, base |-> 2, upcase |-> FALSE],
     [t |-> <<"/", "1", "6">>, base |-> 16, upcase |-> FALSE],
     [t |-> <<"/", "3", "6", "U">>, base |-> 36, upcase |-> TRUE],
     [t |-> <<"/">>, base |-> 0, upcase |-> FALSE],
     [t |-> <<"/", "U">>, base |-> 0, upcase |-> TRUE],
     [t |-> <<"/", "1">>, base |-> 1, upcase |-> FALSE],
     [t |-> <<"/", "3", "7">>, base |-> 37, upcase |-> FALSE]}
IntGroups ==
    {[t |-> <<>>, group |-> 0, sep |-> ","],
     [t |-> <<",">>, group |-> 3, sep |-> ","],
     [t |-> <<",", "0">>, group |-> 3, sep |-> ","],
     [t |-> <<",", "2">>, group |-> 2, sep |-> ","],
     [t |-> <<",", "4", ":">>, group |-> 4, sep |-> ":"],
     [t |-> <<",", "1", ".">>, group |-> 1, sep |-> "."]}

\* an option text is read part by part, so '=' filler and '>' overflow
\* need something before them that keeps them from being read as the align
ReadsAsWritten(al, pl, fl, w, ov) ==
    /\ (al.t = <<>> /\ pl.t = <<>>) => (Len(fl.t) < 2)
    /\ (al.t = <<>> /\ pl.t = <<>> /\ fl.t = <<>> /\ w.t = <<>>) => ov.t = <<>>

IntReading(al, pl, fl, w, ov, b, g) ==
    [align |-> al.align, plus |-> pl.plus, filler |-> fl.filler,
     width |-> w.width, overflow |-> ov.overflow, base |-> b.base,
     upcase |-> b.upcase, group |-> g.group, sep |-> g.sep,
     t |-> al.t \o pl.t \o fl.t \o w.t \o ov.t \o b.t \o g.t,
     asWritten |-> ReadsAsWritten(al, pl, fl, w, ov)]

\* grouping, zero fill and sign, in bases 10 and 16
IntGroupReadings ==
    {IntReading(al, pl, fl, w, ov, b, g) :
        al \in {a \in IntAligns : a.t # <<"=">>}, pl \in IntPluses,
        fl \in IntFillers, w \in IntWidths,
        ov \in {v \in IntOverflows : v.t = <<>>},
        b \in {c \in IntBases : c.t \in {<<>>, <<"X">>}}, g \in IntGroups}

\* alignment, filler and overflow
IntAlignReadings ==
    {IntReading(al, pl, fl, w, ov, b, g) :
        al \in IntAligns, pl \in IntPluses, fl \in IntFillers,
        w \in IntWidths, ov \in IntOverflows,
        b \in {c \in IntBases : c.t = <<>>},
        g \in {h \in IntGroups : h.t \in {<<>>, <<",">>}}}

\* the bases
IntBaseReadings ==
    {IntReading(al, pl, fl, w, ov, b, g) :
        al \in {a \in IntAligns : a.t = <<>>}, pl \in IntPluses,
        fl \in {f \in IntFillers : f.t = <<>>},
        w \in {v \in IntWidths : v.t \in {<<>>, <<"9">>}},
        ov \in {v \in IntOverflows : v.t = <<>>},
        b \in IntBases, g \in {h \in IntGroups : h.t \in {<<>>, <<",">>}}}

IntReadings ==
    {r \in IntGroupReadings \cup IntAlignReadings \cup IntBaseReadings :
        r.asWritten}

\* the parts of an integer option text, written in any order
IntParts ==
    {x.t : x \in IntAligns} \cup {x.t : x \in IntPluses}
        \cup {x.t : x \in IntFillers} \cup {x.t : x \in IntWidths}
        \cup {x.t : x \in IntOverflows} \cup {x.t : x \in IntBases}
        \cup {x.t : x \in IntGroups} \cup {<<"U">>, <<"s">>, <<"a">>}
IntAnyOrder == {a \o b : a \in IntParts, b \in IntParts}

\* "09X,4~:" of test_format.cpp, unescaped
OptTestInt == <<"0", "9", "X", ",", "4", ":">>

IntOptionTexts ==
    {r.t : r \in IntReadings} \cup IntAnyOrder \cup {OptTestInt}

\* the readings of an option text
IntReadingsOf == [t \in IntOptionTexts |-> {r \in IntReadings : r.t = t}]

IntInputs == {0, 7, -7, 123, 255, -1234, 175676, 1234567}

\* the parts a general-mode string option text is put together from
StrAligns ==
    {[t |-> <<>>, align |-> "<"], [t |-> <<"<">>, align |-> "<"],
     [t |-> <<"=">>, align |-> "="], [t |-> <<">">>, align |-> ">"]}
StrWidths ==
    {[t |-> <<>>, width |-> 0], [t |-> <<"5">>, width |-> 5],
     [t |-> <<"8">>, width |-> 8]}
StrFillers ==
    {[t |-> <<>>, filler |-> " "], [t |-> <<"=", ".">>, filler |-> "."]}
StrOverflows ==
    {[t |-> <<>>, overflow |-> NUL], [t |-> <<">", "#">>, overflow |-> "#"]}
StrCases ==
    {[t |-> <<>>, case |-> "none"], [t |-> <<"U">>, case |-> "upper"],
     [t |-> <<"l">>, case |-> "lower"]}
StrStrips ==
    {[t |-> <<>>, strip |-> "none"], [t |-> <<"s">>, strip |-> "both"],
     [t |-> <<"s", "L">>, strip |-> "left"],
     [t |-> <<"s", "R">>, strip |-> "right"]}
StrEscapes == {<<>>, <<"/", "C">>}

\* '=' filler and '>' overflow need something before them that keeps them
\* from being read as the align
StrReadsAsWritten(al, w, fl, ov) ==
    /\ (al.t = <<>> /\ w.t = <<>>) => fl.t = <<>>
    /\ (al.t = <<>> /\ w.t = <<>> /\ fl.t = <<>>) => ov.t = <<>>

StrReading(al, w, fl, ov, ca, st, es) ==
    [align |-> al.align, width |-> w.width, filler |-> fl.filler,
     overflow |-> ov.overflow, case |-> ca.case, strip |-> st.strip,
     t |-> al.t \o w.t \o fl.t \o ov.t \o ca.t \o st.t \o es,
     asWritten |-> StrReadsAsWritten(al, w, fl, ov)]

StrReadings ==
    {r \in {StrReading(al, w, fl, ov, ca, st, es) :
                al \in StrAligns, w \in StrWidths, fl \in StrFillers,
                ov \in StrOverflows, ca \in StrCases, st \in StrStrips,
                es \in StrEscapes} :
        r.asWritten}

\* the parts of a picture: '@' { '=' placeholder } { '<' filler } pattern
PicPlaceholders ==
    {[t |-> <<>>, placeholder |-> "#"],
     [t |-> <<"=", "x">>, placeholder |-> "x"]}
PicFillers ==
    {[t |-> <<>>, filler |-> " "], [t |-> <<"<", ".">>, filler |-> "."]}
\* "(###)-########" is the picture of test_format.cpp
PicPatterns ==
    {<<>>, <<"#", "#", "#">>, <<"x", "-", "#", "x">>,
     <<"(", "#", "#", ")", "x", "#", "!">>,
     <<"#", "a", "#", "b", "x", "c", "x", "d">>,
     <<"(", "#", "#", "#", ")", "-", "#", "#", "#", "#", "#", "#", "#", "#">>}

PicReadings ==
    {[placeholder |-> ph.placeholder, filler |-> fl.filler, pattern |-> pat,
      t |-> <<"@">> \o ph.t \o fl.t \o pat] :
        ph \in PicPlaceholders, fl \in PicFillers, pat \in PicPatterns}

StringOptionTexts == {r.t : r \in StrReadings} \cup {r.t : r \in PicReadings}

StrReadingsOf ==
    [t \in StringOptionTexts |-> {r \in StrReadings : r.t = t}]
PicReadingsOf ==
    [t \in StringOptionTexts |-> {r \in PicReadings : r.t = t}]

\* "555123456789012" is the value test_format.cpp stamps into its picture
StringInputs ==
    {<<>>, <<"h", "i">>, <<" ", " ", "h", "i", " ">>,
     <<"a", "B", "c", "d", "e">>,
     <<"h", "e", "l", "l", "o", " ", "w", "o", "r", "l", "d">>,
     <<"5", "5", "5", "1", "2", "3", "4", "5", "6", "7", "8", "9", "0", "1",
       "2">>}

\* the parts of both option grammars, two at a time in any order
StrParts ==
    {x.t : x \in StrAligns} \cup {x.t : x \in StrWidths}
        \cup {x.t : x \in StrFillers} \cup {x.t : x \in StrOverflows}
        \cup {x.t : x \in StrCases} \cup {x.t : x \in StrStrips}
        \cup StrEscapes \cup {<<"x">>, <<",">>, <<"+">>}
StrAnyOrder == {a \o b : a \in StrParts, b \in StrParts}
AnyOrderTexts == IntAnyOrder \cup StrAnyOrder
AnyOrderValues ==
    {IntValue(0), IntValue(-1234), StringValue(<<>>),
     StringValue(<<"h", "i">>)}

\* the option texts handed to the floating point formatter: every text of
\* up to MaxOptLen characters over a sign, a digit, the point, the two
\* conversions and one character outside the grammar
MaxOptLen == 4
DoubleAlphabet == {"+", "5", ".", "f", "g", "x"}
DoubleOptionTexts == SeqsUpTo(DoubleAlphabet, MaxOptLen)
DoubleInputs == {<<"3", ".", "5">>, <<"-", "1", "0">>}

\* the inputs of the composite formatters: a sequence, a pair or a container
\* bound to n and rendered through "{n:options}" or "{n:options:subformat}"
MaxMarkLen == 3
MarkAlphabet == {"<", ">", ","}
CompositeOptions == SeqsUpTo(MarkAlphabet, MaxMarkLen)

\* "<{*}>", "{c:;}", "{*1}={*2}" and "{a}", the last one naming a Field of
\* the caller
CompositeSubformats ==
    {<<"<", "{", "*", "}", ">">>,
     <<"{", "c", ":", ";", "}">>,
     <<"{", "*", "1", "}", "=", "{", "*", "2", "}">>,
     <<"{", "a", "}">>}

\* the template "{n:options:subformat}"
SubformatTemplate(o, sub) ==
    <<"{", "n", ":">> \o EscapeAll(o) \o <<":">> \o sub \o <<"}">>

CompositeTemplates ==
    {FieldTemplate(o) : o \in CompositeOptions}
        \cup {SubformatTemplate(o, sub) :
                 o \in CompositeOptions, sub \in CompositeSubformats}

ElementLists ==
    {<<>>, <<IntValue(1)>>, <<IntValue(1), IntValue(2)>>,
     <<IntValue(1), IntValue(2), IntValue(3)>>}

EntryLists ==
    {<<>>, <<PairValue(StringValue(<<"I">>), IntValue(1))>>,
     <<PairValue(StringValue(<<"I">>), IntValue(1)),
       PairValue(StringValue(<<"I", "I">>), IntValue(2))>>}

CompositeValues ==
    {SequenceValue(xs) : xs \in ElementLists}
        \cup {SequenceValue(<<StringValue(<<"h", "i">>), StringValue(<<>>)>>),
              PairValue(StringValue(<<"I">>), IntValue(1))}
        \cup {ContainerValue(k, xs) :
                 k \in {"vector", "list", "set"}, xs \in ElementLists}
        \cup {ContainerValue("map", xs) : xs \in EntryLists}

\* the ends of the range of `int` and values next to them, and the option
\* texts they are rendered with
MaxInt == 0 - (MinInt + 1)
IntRangeInputs ==
    {MinInt, MinInt + 1, MinInt + 8, -1000000000, -10, -1, 0, 1, 9, 10,
     1000000000, MaxInt - 1, MaxInt}
IntRangeTexts ==
    {<<>>, <<"+">>, <<"x">>, <<"X">>, <<"/", "2">>, <<"/", "3", "6">>,
     <<",">>, <<"1", "2">>, <<"<", "1", "2">>}

\* the templates parsed one iteration of the outer loop at a time
MaxStepLen == 4
StepTemplates ==
    SeqsUpTo(Sigma, MaxStepLen) \cup EscapeTemplates \cup NestedTemplates
        \cup ExampleTemplates

\* where a parseFormat starts in the template t: at its first character
\* for the call of fmt, after a ':' for the call that parses a subformat
StartsOf(t) == {1} \cup {p \in 2..(Len(t) + 1) : t[p - 1] = ":"}

\* the locals p, result and last_static of parseFormat(p0) on entry
LoopStart(p0) ==
    [fs |-> <<>>, p |-> p0, err |-> NoError, last_static |-> FALSE]

\* whether the outer loop runs once more from the locals st
LoopRuns(s, st) == st.err = NoError /\ ParseContinues(At(s, st.p))

\* the locals the outer loop goes through from those of S
RECURSIVE LoopClosure(_, _)
LoopClosure(s, S) ==
    LET T == S \cup {ParseIteration(s, st.p, st.fs, st.last_static) :
                        st \in {x \in S : LoopRuns(s, x)}}
    IN  IF T = S THEN S ELSE LoopClosure(s, T)

\* every iteration of the outer loop on the templates, worked out once:
\* IterationOf[t][st] is the iteration of parseFormat on t from the locals st
IterationOf ==
    [t \in StepTemplates |->
        [st \in {x \in LoopClosure(t, {LoopStart(p0) : p0 \in StartsOf(t)}) :
                    LoopRuns(t, x)} |->
            ParseIteration(t, st.p, st.fs, st.last_static)]]

(***************************************************************************)
(* The state: a caller parses a template, binds values into a Dict,        *)
(* renders, and the Dict is destroyed.                                     *)
(***************************************************************************)
VARIABLES
    tmpl,     \* the template handed to fmt
    parsed,   \* what fmt did: the Format, its cursor p, the exception
    pc,       \* the caller's position
    fd,       \* the caller's Dict
    alive,    \* whether ~Dict() has not run yet
    log,      \* the bind calls made on fd, in order
    out       \* what format did: the string or the exception

vars == <<tmpl, parsed, pc, fd, alive, log, out>>

NotParsed == [fs |-> <<>>, p |-> 0, err |-> "not parsed"]
NotRendered == [err |-> "not rendered", s |-> <<>>]

Init ==
    /\ tmpl = <<>>
    /\ parsed = NotParsed
    /\ pc = "start"
    /\ fd = NewDict
    /\ alive = TRUE
    /\ log = <<>>
    /\ out = NotRendered

\* Format fs = fmt(t);
Fmt(t) ==
    /\ pc = "start"
    /\ tmpl' = t
    /\ parsed' = fmt(t)
    /\ pc' = IF fmt(t).err = NoError THEN "parsed" ELSE "failed"
    /\ UNCHANGED <<fd, alive, log, out>>

\* fd(name, value);
Bind(name, value) ==
    /\ alive
    /\ pc \in {"start", "parsed"}
    /\ fd' = DictBind(fd, name, value)
    /\ log' = Append(log, [name |-> name, value |-> value])
    /\ UNCHANGED <<tmpl, parsed, pc, alive, out>>

\* std::string out = fs % fd;
Format ==
    /\ alive
    /\ pc = "parsed"
    /\ out' = format(parsed.fs, fd)
    /\ pc' = "rendered"
    /\ UNCHANGED <<tmpl, parsed, fd, alive, log>>

\* fd goes out of scope
Destroy ==
    /\ alive
    /\ fd' = DictDestroy(fd)
    /\ alive' = FALSE
    /\ UNCHANGED <<tmpl, parsed, pc, log, out>>

\* parse a template, bind, render
Next ==
    \/ \E t \in RenderTemplates : Fmt(t)
    \/ \E n \in RenderNames, v \in RenderValues :
          pc = "parsed" /\ Len(log) < MaxRenderBinds /\ Bind(n, v)
    \/ Format

Spec == Init /\ [][Next]_vars

\* the parser alone, on every template
NextParse == \E t \in Templates : Fmt(t)

SpecParse == Init /\ [][NextParse]_vars

\* the Dict alone: binds, then its destruction
NextDict ==
    \/ \E n \in DictNames, v \in DictValues :
          Len(log) < MaxBinds /\ Bind(n, v)
    \/ Destroy

SpecDict == Init /\ [][NextDict]_vars

\* a caller renders one integer with one option text: "{n:options}"
NextInt ==
    \/ \E o \in IntOptionTexts : Fmt(FieldTemplate(o))
    \/ \E x \in IntInputs :
          pc = "parsed" /\ log = <<>> /\ Bind(<<"n">>, IntValue(x))
    \/ log # <<>> /\ Format
SpecInt == Init /\ [][NextInt]_vars

\* a caller renders one string with one option text
NextString ==
    \/ \E o \in StringOptionTexts : Fmt(FieldTemplate(o))
    \/ \E x \in StringInputs :
          pc = "parsed" /\ log = <<>> /\ Bind(<<"n">>, StringValue(x))
    \/ log # <<>> /\ Format
SpecString == Init /\ [][NextString]_vars

\* a caller renders an integer or a string with option parts in any order
NextAnyOrder ==
    \/ \E o \in AnyOrderTexts : Fmt(FieldTemplate(o))
    \/ \E v \in AnyOrderValues :
          pc = "parsed" /\ log = <<>> /\ Bind(<<"n">>, v)
    \/ log # <<>> /\ Format
SpecAnyOrder == Init /\ [][NextAnyOrder]_vars

\* a caller renders one double with one option text
NextDouble ==
    \/ \E o \in DoubleOptionTexts : Fmt(FieldTemplate(o))
    \/ \E x \in DoubleInputs :
          pc = "parsed" /\ log = <<>> /\ Bind(<<"n">>, DoubleValue(x))
    \/ log # <<>> /\ Format
SpecDouble == Init /\ [][NextDouble]_vars

\* a caller renders one sequence, pair or container bound to n, with or
\* without a value of its own bound to a
NextComposite ==
    \/ \E t \in CompositeTemplates : Fmt(t)
    \/ pc = "parsed" /\ log = <<>> /\ Bind(<<"a">>, IntValue(7))
    \/ \E v \in CompositeValues :
          pc = "parsed" /\ <<"n">> \notin DOMAIN fd.env /\ Bind(<<"n">>, v)
    \/ <<"n">> \in DOMAIN fd.env /\ Format
SpecComposite == Init /\ [][NextComposite]_vars

\* a caller renders one integer from the ends of the range of `int`
NextIntRange ==
    \/ \E o \in IntRangeTexts : Fmt(FieldTemplate(o))
    \/ \E x \in IntRangeInputs :
          pc = "parsed" /\ log = <<>> /\ Bind(<<"n">>, IntValue(x))
    \/ log # <<>> /\ Format
SpecIntRange == Init /\ [][NextIntRange]_vars

\* parseFormat(p), one iteration of its outer loop at a time; `parsed` holds
\* the locals p, result and last_static of the call
ParseBegin(t, p0) ==
    /\ pc = "start"
    /\ tmpl' = t
    /\ parsed' = LoopStart(p0)
    /\ pc' = "parsing"
    /\ UNCHANGED <<fd, alive, log, out>>

\* the loop condition holds: one iteration, left by its end or by a throw
ParseStep ==
    /\ pc = "parsing"
    /\ ParseContinues(At(tmpl, parsed.p))
    /\ parsed' = IterationOf[tmpl][parsed]
    /\ pc' = IF parsed'.err # NoError THEN "failed" ELSE "parsing"
    /\ UNCHANGED <<tmpl, fd, alive, log, out>>

\* the loop condition fails: `return result`
ParseReturn ==
    /\ pc = "parsing"
    /\ ~ParseContinues(At(tmpl, parsed.p))
    /\ pc' = "parsed"
    /\ UNCHANGED <<tmpl, parsed, fd, alive, log, out>>

NextParseSteps ==
    \/ \E t \in StepTemplates : \E p0 \in StartsOf(t) : ParseBegin(t, p0)
    \/ ParseStep
    \/ ParseReturn

SpecParseSteps == Init /\ [][NextParseSteps]_vars

\* a call that has started runs on: nothing else is scheduled
SpecParseStepsLive ==
    SpecParseSteps /\ WF_vars(ParseStep) /\ WF_vars(ParseReturn)

(***************************************************************************)
(* The claims.                                                             *)
(***************************************************************************)
Parsed == pc = "parsed"
ParseDone == pc \in {"parsed", "failed"}
Rendered == pc = "rendered"

Ok(text) == [err |-> NoError, s |-> text]

BoundNames == DOMAIN fd.env

\* the value bound to name n in fd
BoundValue(n) == fd.heap[fd.env[n]].x

\* what one Field adds to the output, read off the Dict directly
Contribution(f) ==
    IF f.name = <<>> THEN Ok(f.options)
    ELSE IF f.name \in BoundNames THEN toString(BoundValue(f.name), f)
    ELSE [err |-> ErrFieldNotPresent, s |-> <<>>]

RECURSIVE JoinContributions(_, _)
JoinContributions(fs, i) ==
    IF i > Len(fs) THEN <<>>
    ELSE Contribution(fs[i]).s \o JoinContributions(fs, i + 1)

EveryFieldRenders(fs) ==
    \A i \in 1..Len(fs) : Contribution(fs[i]).err = NoError

\* C1: format(fs, dict) returns the concatenation, in Field order, of one
\* contribution per Field and nothing else: the options text of a Field
\* with an empty name, taken without any lookup, and toString(field) of the
\* value bound to the name of a Field with a non-empty name.
C1_FormatConcatenates ==
    Rendered =>
        /\ out.err = NoError <=> EveryFieldRenders(parsed.fs)
        /\ out.err = NoError => out.s = JoinContributions(parsed.fs, 1)

C1_Witness ==
    /\ Rendered
    /\ out.err = NoError
    /\ tmpl = TplMixed
    /\ BoundValue(<<"a">>) = IntValue(7)
    /\ BoundValue(<<"m">>) = StringValue(<<"h", "i">>)
    /\ out.s = <<"x", "7", "-", "h", "i", "y">>

\* C2: in static text, in a field name and in field options, '~' followed
\* by a character c contributes c literally and both are consumed, so an
\* escaped '{', '}', ':' or '~' neither opens nor closes a field nor
\* separates options; "a~{b~}c" renders to "a{b}c" and "x~~y" to "x~y" with
\* an empty Dict.
C2_EscapesAreLiteral ==
    ParseDone =>
        /\ \A r \in RawTexts :
              /\ tmpl = EscapedStatic(r) =>
                    parsed.err = NoError /\ parsed.fs = <<Field(<<>>, r)>>
              /\ tmpl = EscapedName(r) =>
                    parsed.err = NoError /\ parsed.fs = <<Field(r, <<>>)>>
              /\ tmpl = EscapedOptions(r) =>
                    parsed.err = NoError /\ parsed.fs = <<Field(<<"a">>, r)>>
        /\ tmpl = TplEscapedBraces =>
              /\ parsed.err = NoError
              /\ format(parsed.fs, NewDict) = Ok(<<"a", "{", "b", "}", "c">>)
        /\ tmpl = TplEscapedTilde =>
              /\ parsed.err = NoError
              /\ format(parsed.fs, NewDict) = Ok(<<"x", "~", "y">>)

C2_Witness ==
    /\ Parsed
    /\ tmpl = EscapedOptions(<<":", "}">>)
    /\ parsed.fs[1].options = <<":", "}">>

\* The grammar of the template language read left to right: whether the
\* cursor is in static text, in a name or in options, how many fields are
\* open, and whether a '}' stood where no field was open.
RECURSIVE GrammarScan(_, _, _, _, _)
GrammarScan(t, i, mode, depth, stray) ==
    IF i > Len(t) THEN [mode |-> mode, depth |-> depth, stray |-> stray]
    ELSE IF t[i] = "~" /\ i < Len(t)
    THEN GrammarScan(t, i + 2, mode, depth, stray)
    ELSE IF mode = "static" /\ t[i] = "{"
    THEN GrammarScan(t, i + 1, "name", depth + 1, stray)
    ELSE IF mode = "static" /\ t[i] = "}" /\ depth = 0
    THEN GrammarScan(t, i + 1, "static", depth, TRUE)
    ELSE IF t[i] = "}"
    THEN GrammarScan(t, i + 1, "static", depth - 1, stray)
    ELSE IF mode = "name" /\ t[i] = ":"
    THEN GrammarScan(t, i + 1, "options", depth, stray)
    ELSE IF mode = "options" /\ t[i] = ":"
    THEN GrammarScan(t, i + 1, "static", depth, stray)
    ELSE GrammarScan(t, i + 1, mode, depth, stray)

\* an unescaped '{' opens a field that no unescaped '}' closes
HasUnclosedField(t) == GrammarScan(t, 1, "static", 0, FALSE).depth > 0

\* an unescaped '}' stands outside every field
HasStrayClose(t) == GrammarScan(t, 1, "static", 0, FALSE).stray

\* C3: fmt fails with "'}' expected" for every template in which an
\* unescaped '{' opens a field that no unescaped '}' closes, wherever in
\* the template that '{' stands, and returns no Format then.
C3_UnclosedFieldFails ==
    ParseDone /\ HasUnclosedField(tmpl) =>
        parsed.err = ErrCloseExpected /\ parsed.fs = <<>>

\* C4: a successful fmt(t) accounts for the whole of t: parsing at the top
\* level stops only at the end of the template, and an unescaped '}'
\* outside any field makes fmt fail.
C4_WholeTemplateParsed ==
    Parsed => parsed.p = Len(tmpl) + 1 /\ ~HasStrayClose(tmpl)

RECURSIVE NoAdjacentStatic(_)
NoAdjacentStatic(fs) ==
    /\ \A i \in 1..(Len(fs) - 1) :
          ~(fs[i].name = <<>> /\ fs[i + 1].name = <<>>)
    /\ \A i \in 1..Len(fs) :
          \A j \in 1..Len(fs[i].subformats) :
              NoAdjacentStatic(fs[i].subformats[j])

\* C5: in every Format produced by fmt, at every nesting level, no two
\* consecutive Fields both have an empty name.
C5_StaticRunsMerged == Parsed => NoAdjacentStatic(parsed.fs)

\* the templates '{' name ':' options ':' sub '}' with their parts
NestedCases ==
    {[name |-> n, options |-> o, sub |-> sub, tmpl |-> Wrap(n, o, sub)] :
        n \in NestNames, o \in NestOptions, sub \in Nested(MaxDepth - 1)}

\* C6: fmt of '{' name ':' options ':' sub '}' (name not empty) yields
\* exactly one Field with that name, those options and one subformat equal
\* to the parse of sub, at any nesting depth; "{vec::{x:+4}}" gives Field
\* 'vec' with empty options whose subformat holds Field 'x' with options
\* "+4", and "{m:, :{*::{*1} -> {*2}}}" rendered with m bound to the pairs
\* (I,1),(II,2) gives "I -> 1, II -> 2".
C6_NestedFieldParsed ==
    ParseDone =>
        /\ \A c \in NestedCases :
              tmpl = c.tmpl =>
                  /\ parsed.err = NoError
                  /\ fmt(c.sub).err = NoError
                  /\ parsed.fs = <<[name |-> c.name, options |-> c.options,
                                    subformats |-> <<fmt(c.sub).fs>>]>>
        /\ tmpl = TplVec =>
              parsed.fs =
                  <<[name |-> <<"v", "e", "c">>, options |-> <<>>,
                     subformats |-> <<<<Field(<<"x">>, <<"+", "4">>)>>>>]>>
        /\ tmpl = TplMap =>
              format(parsed.fs, DictBind(NewDict, <<"m">>, PairsI_II))
                  = Ok(<<"I", " ", "-", ">", " ", "1", ",", " ",
                         "I", "I", " ", "-", ">", " ", "2">>)

C6_Witness ==
    /\ Parsed
    /\ tmpl = Wrap(<<"a">>, <<"+", "4">>,
                   Wrap(<<"v", "e", "c">>, <<>>, <<"{", "x", "}">>))
    /\ parsed.fs[1].subformats[1][1].subformats[1][1].name = <<"x">>

\* the positions of the log at which name n was bound
BindsOf(n) == {i \in 1..Len(log) : log[i].name = n}

LastBindOf(n) == CHOOSE i \in BindsOf(n) : \A j \in BindsOf(n) : j <= i

\* what lookup(n) gives: the exception, or the value of the wrapper
LookupValue(d, n) ==
    IF DictLookup(d, n).err # NoError
    THEN [err |-> DictLookup(d, n).err, x |-> UnsupportedValue]
    ELSE [err |-> NoError, x |-> d.heap[DictLookup(d, n).ptr].x]

C7_LastBindWins ==
    alive =>
        /\ \A n \in DictNames :
              BindsOf(n) # {} =>
                  LookupValue(fd, n) =
                      [err |-> NoError, x |-> log[LastBindOf(n)].value]
        /\ BoundNames = {log[i].name : i \in 1..Len(log)}

C7_OtherNamesKept ==
    \A n \in DictNames :
        (alive /\ Len(log') = Len(log) + 1 /\ log'[Len(log')].name # n)
            => LookupValue(fd', n) = LookupValue(fd, n)

\* C7: after any sequence of bind calls, lookup(n) of a name bound at least
\* once returns the value of the most recent bind of n, the Dict holds
\* exactly one binding per distinct name, and a bind of another name never
\* changes what lookup(n) returns.
C7_LookupReturnsLastBind == [] C7_LastBindWins /\ [][C7_OtherNamesKept]_vars

C7_Witness ==
    /\ alive
    /\ Len(log) = 3
    /\ log[1].name = log[3].name
    /\ log[2].name # log[1].name
    /\ log[1].value # log[3].value
    /\ LookupValue(fd, log[1].name).x = log[3].value

IsCurrent(a) == \E n \in BoundNames : fd.env[n] = a

\* C8: every boxed value created by bind is released exactly once, when its
\* name is rebound or when the Dict is destroyed, and never while it is the
\* current binding of a name: no value is leaked, none is released twice,
\* and lookup never returns a released value.
C8_EachValueReleasedOnce ==
    /\ Len(fd.heap) = Len(log)
    /\ \A a \in 1..Len(fd.heap) :
          /\ fd.heap[a].x = log[a].value
          /\ fd.heap[a].deleted <= 1
          /\ alive => (fd.heap[a].deleted = 0 <=> IsCurrent(a))
          /\ ~alive => fd.heap[a].deleted = 1

C8_Witness ==
    /\ ~alive
    /\ Len(log) = 3
    /\ log[1].name = log[2].name
    /\ log[3].name # log[1].name
    /\ \A a \in 1..3 : fd.heap[a].deleted = 1

\* the dynamic Fields of fs whose name is not bound in fd
UnboundFields(fs) ==
    {i \in 1..Len(fs) : fs[i].name # <<>> /\ fs[i].name \notin BoundNames}

\* the Fields of fs whose contribution is an exception
FailingFields(fs) ==
    {i \in 1..Len(fs) : Contribution(fs[i]).err # NoError}

FirstOf(S) == CHOOSE i \in S : \A j \in S : i <= j

\* C9 as stated: lookup of an unbound name fails with "Field not present",
\* and format fails with that error whenever fs contains a dynamic Field
\* whose name is not bound, whatever its position and whatever was
\* rendered before it.
C9_UnboundFieldFailsNotPresent ==
    Rendered /\ UnboundFields(parsed.fs) # {} =>
        out = [err |-> ErrFieldNotPresent, s |-> <<>>]

\* C9 amended: lookup of an unbound name fails with "Field not present";
\* format fails, returning no partial string, whenever fs contains a
\* dynamic Field whose name is not bound, and the failure is that of the
\* first Field in order that fails: "Field not present" when every Field
\* before the first unbound one renders, the exception of the earlier
\* Field otherwise.
C9_FirstFailureWins ==
    /\ \A n \in RenderNames \cup DictNames :
          n \notin BoundNames => DictLookup(fd, n).err = ErrFieldNotPresent
    /\ Rendered /\ UnboundFields(parsed.fs) # {} =>
          /\ out.err # NoError
          /\ out.s = <<>>
          /\ out.err = Contribution(
                           parsed.fs[FirstOf(FailingFields(parsed.fs))]).err
          /\ FirstOf(FailingFields(parsed.fs))
                 = FirstOf(UnboundFields(parsed.fs))
                => out.err = ErrFieldNotPresent
    /\ Rendered /\ tmpl = TplUnknown /\ log = <<>> =>
          out = [err |-> ErrFieldNotPresent, s |-> <<>>]

\* an earlier Field rendered, and the unbound one after it failed
C9_Witness ==
    /\ Rendered
    /\ tmpl = <<"{", "a", "}", "{", "m", "}">>
    /\ BoundNames = {<<"a">>}
    /\ BoundValue(<<"a">>) = IntValue(7)
    /\ out = [err |-> ErrFieldNotPresent, s |-> <<>>]

RECURSIVE HoldsUnsupported(_)
HoldsUnsupported(v) ==
    \/ v.type = "unsupported"
    \/ \E i \in 1..Len(v.elems) : HoldsUnsupported(v.elems[i])

\* the names whose bound value has, or holds, a type without a Formatter
UnsupportedNames == {n \in BoundNames : HoldsUnsupported(BoundValue(n))}

\* the Dict of the same bind calls without those of the names in S
RECURSIVE Replay(_, _, _)
Replay(l, i, S) ==
    IF i = 0 THEN NewDict
    ELSE IF l[i].name \in S THEN Replay(l, i - 1, S)
    ELSE DictBind(Replay(l, i - 1, S), l[i].name, l[i].value)

References(fs, S) == \E i \in 1..Len(fs) : fs[i].name \in S

\* C10: binding a value whose type has no Formatter specialisation always
\* succeeds; "Unsupported type" is raised only when a render reaches a
\* Field that references that name, so a Format that does not reference
\* the name renders as it does without that binding.
C10_UnsupportedOnlyWhenRendered ==
    /\ \A n \in RenderNames :
          (BindsOf(n) # {} /\ log[LastBindOf(n)].value = UnsupportedValue)
              => LookupValue(fd, n) = [err |-> NoError, x |-> UnsupportedValue]
    /\ Rendered /\ out.err = ErrUnsupportedType =>
          References(parsed.fs, UnsupportedNames)
    /\ Rendered /\ ~References(parsed.fs, UnsupportedNames) =>
          out = format(parsed.fs, Replay(log, Len(log), UnsupportedNames))
    /\ (Rendered /\ Len(parsed.fs) > 0
            /\ parsed.fs[1].name \in UnsupportedNames) =>
          out = [err |-> ErrUnsupportedType, s |-> <<>>]

C10_Witness ==
    /\ Rendered
    /\ tmpl = <<"{", "a", "}", "x">>
    /\ BoundNames = {<<"a">>, <<"m">>}
    /\ BoundValue(<<"m">>) = UnsupportedValue
    /\ BoundValue(<<"a">>) = IntValue(7)
    /\ out = Ok(<<"7", "x">>)

(***************************************************************************)
(* The integer format, stated without its loops: digits most significant   *)
(* first, groups counted from the right, the sign in front.                *)
(***************************************************************************)
DigitsLower ==
    <<"0", "1", "2", "3", "4", "5", "6", "7", "8", "9", "a", "b", "c", "d",
      "e", "f", "g", "h", "i", "j", "k", "l", "m", "n", "o", "p", "q", "r",
      "s", "t", "u", "v", "w", "x", "y", "z">>
DigitsUpper ==
    <<"0", "1", "2", "3", "4", "5", "6", "7", "8", "9", "A", "B", "C", "D",
      "E", "F", "G", "H", "I", "J", "K", "L", "M", "N", "O", "P", "Q", "R",
      "S", "T", "U", "V", "W", "X", "Y", "Z">>

Abs(x) == IF x < 0 THEN 0 - x ELSE x

RECURSIVE DigitsOf(_, _, _)
DigitsOf(n, base, upcase) ==
    IF n < base
    THEN <<IF upcase THEN DigitsUpper[n + 1] ELSE DigitsLower[n + 1]>>
    ELSE Append(DigitsOf(n \div base, base, upcase),
                IF upcase THEN DigitsUpper[(n % base) + 1]
                ELSE DigitsLower[(n % base) + 1])

RECURSIVE GroupedFromRight(_, _, _)
GroupedFromRight(ds, g, sep) ==
    IF g = 0 \/ Len(ds) <= g THEN ds
    ELSE GroupedFromRight(SubSeq(ds, 1, Len(ds) - g), g, sep)
             \o <<sep>> \o SubSeq(ds, Len(ds) - g + 1, Len(ds))

SignOf(x, plus) == IF x < 0 THEN <<"-">> ELSE IF plus THEN <<"+">> ELSE <<>>

\* the digits of x under the reading r of the options
DigitsRead(x, r) == DigitsOf(Abs(x), r.base, r.upcase)

\* sign, digits and separators of x under r, before any padding
Unpadded(x, r) ==
    SignOf(x, r.plus) \o GroupedFromRight(DigitsRead(x, r), r.group, r.sep)

ValidBase(r) == r.base >= 2 /\ r.base <= 36

\* the zero fill ahead of the sign applies
ZeroPads(r) == r.filler = "0" /\ r.align = ">"

\* a render of the one Field "{n:options}" with n bound
FieldCall(type) ==
    /\ Rendered
    /\ Len(parsed.fs) = 1
    /\ parsed.fs[1].name = <<"n">>
    /\ <<"n">> \in BoundNames
    /\ BoundValue(<<"n">>).type = type

TheOptions == parsed.fs[1].options
TheInt == BoundValue(<<"n">>).int

\* the readings of the options of the render
IntReadingsHere ==
    IF TheOptions \in DOMAIN IntReadingsOf THEN IntReadingsOf[TheOptions]
    ELSE {}

IntCallOf(x, o) == FieldCall("int") /\ TheInt = x /\ TheOptions = o

\* C11: with a group option of size g and separator s and no zero padding,
\* the digits are split into groups counted from the least significant
\* digit, s after every g digits, never ahead of the most significant digit
\* nor next to the sign; g defaults to 3 (also when given as 0), s to ',';
\* 1234567 with "," gives "1,234,567".
C11_GroupsFromTheRight ==
    /\ FieldCall("int") =>
          \A r \in IntReadingsHere :
              (/\ r.group > 0
               /\ ValidBase(r)
               /\ ~ZeroPads(r)
               /\ r.overflow = NUL
               /\ Len(Unpadded(TheInt, r)) >= r.width)
                  => out = Ok(Unpadded(TheInt, r))
    /\ IntCallOf(1234567, <<",">>) =>
          out = Ok(<<"1", ",", "2", "3", "4", ",", "5", "6", "7">>)
    /\ IntCallOf(1234567, <<",", "0">>) =>
          out = Ok(<<"1", ",", "2", "3", "4", ",", "5", "6", "7">>)

C11_Witness ==
    /\ IntCallOf(-1234, <<"+", ",", "2">>)
    /\ out = Ok(<<"-", "1", "2", ",", "3", "4">>)

\* C12: with filler '0', right or default alignment, width W and no
\* grouping, an integer whose sign and digits take at most W characters is
\* rendered in exactly W characters: the sign first, then zeros, then the
\* digits; 7 with "04" gives "0007" and -7 with "04" gives "-007".
C12_ZeroFillAfterSign ==
    /\ FieldCall("int") =>
          \A r \in IntReadingsHere :
              (/\ ZeroPads(r)
               /\ r.group = 0
               /\ ValidBase(r)
               /\ r.width > 0
               /\ Len(Unpadded(TheInt, r)) <= r.width)
                  => /\ out.err = NoError
                     /\ Len(out.s) = r.width
                     /\ out.s = SignOf(TheInt, r.plus)
                                \o Copies(r.width - Len(Unpadded(TheInt, r)),
                                          "0")
                                \o DigitsRead(TheInt, r)
    /\ IntCallOf(7, <<"0", "4">>) => out = Ok(<<"0", "0", "0", "7">>)
    /\ IntCallOf(-7, <<"0", "4">>) => out = Ok(<<"-", "0", "0", "7">>)

C12_Witness ==
    /\ IntCallOf(255, <<"+", "0", "9", "X">>)
    /\ out = Ok(<<"+", "0", "0", "0", "0", "0", "0", "F", "F">>)

\* the text after its sign
WithoutSign(text) ==
    IF text # <<>> /\ text[1] \in {"-", "+"} THEN Tail(text) ELSE text

\* counted from the right, every (g+1)-th character is the separator and
\* no other character is
GroupedThroughout(text, g, sep) ==
    \A k \in 1..Len(text) :
        (text[Len(text) + 1 - k] = sep) <=> (k % (g + 1) = 0)

\* C13: when an integer is zero-padded with grouping enabled (filler '0',
\* right or default alignment, group size g), the padding zeros are grouped
\* like the digits: counted from the least significant digit there is a
\* separator after every g digit characters, through the padded region
\* too, for every value and every width.
C13_ZeroFillIsGrouped ==
    FieldCall("int") =>
        \A r \in IntReadingsHere :
            (ZeroPads(r) /\ r.group > 0 /\ ValidBase(r) /\ r.width > 0)
                => /\ out.err = NoError
                   /\ GroupedThroughout(WithoutSign(out.s), r.group, r.sep)

\* C14: with width W > 0 and an overflow char c, an integer whose rendering
\* (digits, separators and sign) is longer than W is rendered as exactly W
\* copies of c; with no overflow char it is output in full, never
\* truncated; with an overflow char set the output length is W for every
\* value.
C14_OverflowFillsWidth ==
    FieldCall("int") =>
        \A r \in IntReadingsHere :
            (r.width > 0 /\ ValidBase(r)) =>
                /\ (r.overflow # NUL
                        /\ Len(Unpadded(TheInt, r)) > r.width)
                       => out = Ok(Copies(r.width, r.overflow))
                /\ (r.overflow = NUL
                        /\ Len(Unpadded(TheInt, r)) > r.width)
                       => out = Ok(Unpadded(TheInt, r))
                /\ r.overflow # NUL
                       => out.err = NoError /\ Len(out.s) = r.width

C14_Witness ==
    /\ IntCallOf(1234567, <<"<", "4", ">", "#", ",">>)
    /\ out = Ok(<<"#", "#", "#", "#">>)

\* C15: 'x' selects base 16 with lowercase digits, 'X' base 16 with
\* uppercase digits, '/' followed by digits that base, lowercase unless 'U'
\* follows; the digits emitted are those of the absolute value in that
\* base; 255 with "x" gives "ff" and with "X" gives "FF"; a base outside
\* 2..36, '/' with no digits included, fails.
C15_BaseSelection ==
    /\ FieldCall("int") =>
          \A r \in IntReadingsHere :
              /\ ~ValidBase(r) =>
                    out = [err |-> ErrInvalidInt, s |-> <<>>]
              /\ (ValidBase(r) /\ r.width = 0 /\ r.group = 0) =>
                    out = Ok(SignOf(TheInt, r.plus) \o DigitsRead(TheInt, r))
    /\ IntCallOf(255, <<"x">>) => out = Ok(<<"f", "f">>)
    /\ IntCallOf(255, <<"X">>) => out = Ok(<<"F", "F">>)
    /\ IntCallOf(255, <<"/">>) => out.err = ErrInvalidInt

C15_Witness ==
    /\ IntCallOf(-1234, <<"/", "3", "6", "U">>)
    /\ out = Ok(<<"-", "Y", "A">>)

\* C17: with width W greater than the unpadded length L and a filler f
\* other than '0', the output has exactly W characters: the unpadded
\* rendering plus W-L copies of f, all after it for '<', all before it for
\* '>' or no align, and on both sides for '=' (the odd one after it).
C17_PaddingByAlign ==
    FieldCall("int") =>
        \A r \in IntReadingsHere :
            (/\ ValidBase(r)
             /\ r.filler # "0"
             /\ r.width > Len(Unpadded(TheInt, r)))
                => /\ out.err = NoError
                   /\ Len(out.s) = r.width
                   /\ r.align = "<" =>
                         out.s = Unpadded(TheInt, r)
                                 \o Copies(r.width - Len(Unpadded(TheInt, r)),
                                           r.filler)
                   /\ r.align = ">" =>
                         out.s = Copies(r.width - Len(Unpadded(TheInt, r)),
                                        r.filler)
                                 \o Unpadded(TheInt, r)
                   /\ r.align = "=" =>
                         out.s = Copies((r.width - Len(Unpadded(TheInt, r)))
                                            \div 2, r.filler)
                                 \o Unpadded(TheInt, r)
                                 \o Copies((r.width + 1
                                              - Len(Unpadded(TheInt, r)))
                                            \div 2, r.filler)

C17_Witness ==
    /\ IntCallOf(-7, <<"=", "=", "*", "9">>)
    /\ out = Ok(<<"*", "*", "*", "-", "7", "*", "*", "*", "*">>)

(***************************************************************************)
(* The option grammars, read as grammars: the set of cursor positions a     *)
(* prefix of the text can end at after each part.                          *)
(***************************************************************************)
DecimalDigits == {"0", "1", "2", "3", "4", "5", "6", "7", "8", "9"}

\* an optional character of S
AfterOneOf(o, P, S) ==
    P \cup {q + 1 : q \in {p \in P : p <= Len(o) /\ o[p] \in S}}

\* an optional character c followed by any character
AfterPair(o, P, c) ==
    P \cup {q + 2 : q \in {p \in P : p + 1 <= Len(o) /\ o[p] = c}}

\* a character c that must be there
AfterChar(o, P, c) == {q + 1 : q \in {p \in P : p <= Len(o) /\ o[p] = c}}

\* any number of digits
AfterDigits(o, P) ==
    {q \in 1..(Len(o) + 1) :
        \E p \in P : p <= q /\ \A k \in p..(q - 1) : o[k] \in DecimalDigits}

\* an optional character, whatever it is
AfterAny(o, P) == P \cup {q + 1 : q \in {p \in P : p <= Len(o)}}

\* 'x' | 'X' | '/' digits ['U'], optional
AfterBase(o, P) ==
    AfterOneOf(o, P, {"x", "X"})
        \cup AfterOneOf(o, AfterDigits(o, AfterChar(o, P, "/")), {"U"})

\* ',' [digits] [sep-char], optional
AfterGroup(o, P) == P \cup AfterAny(o, AfterDigits(o, AfterChar(o, P, ",")))

\* '0' | '=' filler-char, optional
AfterFillSpec(o, P) == AfterOneOf(o, P, {"0"}) \cup AfterPair(o, P, "=")

\* 's' ['L' | 'R'], optional
AfterStrip(o, P) == P \cup AfterOneOf(o, AfterChar(o, P, "s"), {"L", "R"})

\* '/' 'C', optional
AfterEscape(o, P) == P \cup AfterChar(o, AfterChar(o, P, "/"), "C")

\* align, plus, fillspec, width, overflow, base-select, group
InIntGrammar(o) ==
    (Len(o) + 1) \in
        AfterGroup(o, AfterBase(o, AfterPair(o, AfterDigits(o,
            AfterFillSpec(o, AfterOneOf(o, AfterOneOf(o, {1},
                {"<", "=", ">"}), {"+"}))), ">")))

\* align, width, filler, overflow, case flag, strip flag, escape flag
InStringGrammar(o) ==
    (Len(o) + 1) \in
        AfterEscape(o, AfterStrip(o, AfterOneOf(o, AfterPair(o,
            AfterPair(o, AfterDigits(o, AfterOneOf(o, {1},
                {"<", "=", ">"})), "="), ">"), {"U", "l"})))

TheString == BoundValue(<<"n">>).str

GeneralMode == TheOptions = <<>> \/ TheOptions[1] # "@"

\* a later part of the integer options written ahead of an earlier one
IntOutOfOrder ==
    {g.t \o b.t : g \in {h \in IntGroups : h.t # <<>>},
                  b \in {c \in IntBases : c.t # <<>>}}
        \cup {g.t \o pl.t : g \in {h \in IntGroups : h.t # <<>>},
                            pl \in {q \in IntPluses : q.t # <<>>}}
        \cup {b.t \o pl.t : b \in {c \in IntBases : c.t # <<>>},
                            pl \in {q \in IntPluses : q.t # <<>>}}
        \cup {pl.t \o al.t : pl \in {q \in IntPluses : q.t # <<>>},
                             al \in {a \in IntAligns : a.t # <<>>}}

\* C16 as stated: options given out of order are never silently accepted.
C16_OutOfOrderRejected ==
    (FieldCall("int") /\ TheOptions \in IntOutOfOrder) => out.err # NoError

\* C16 amended: an option text that is no sentence of the option grammar,
\* so that characters are left over once the grammar has been read in its
\* fixed order, is rejected by the integer formatter and by the string
\* general-mode formatter with an error and no text, for every value; a
\* text that is a sentence is accepted as the grammar reads it, also when
\* its parts were meant in another order (",x" is the group option with
\* separator 'x').
C16_LeftoverRejected ==
    /\ (FieldCall("int") /\ ~InIntGrammar(TheOptions)) =>
          out = [err |-> ErrInvalidInt, s |-> <<>>]
    /\ (FieldCall("string") /\ GeneralMode /\ ~InStringGrammar(TheOptions)) =>
          out = [err |-> ErrInvalidString, s |-> <<>>]
    /\ IntCallOf(-1234, <<",", "x">>) =>
          out = Ok(<<"-", "1", "x", "2", "3", "4">>)

C16_Witness ==
    /\ FieldCall("string")
    /\ TheString = <<"h", "i">>
    /\ TheOptions = <<"U", "5">>
    /\ ~InStringGrammar(TheOptions)
    /\ out = [err |-> ErrInvalidString, s |-> <<>>]

(***************************************************************************)
(* The string format, stated without its loops.                            *)
(***************************************************************************)
RECURSIVE WithoutLeading(_)
WithoutLeading(x) ==
    IF x # <<>> /\ Head(x) = " " THEN WithoutLeading(Tail(x)) ELSE x

RECURSIVE WithoutTrailing(_)
WithoutTrailing(x) ==
    IF x # <<>> /\ x[Len(x)] = " "
    THEN WithoutTrailing(SubSeq(x, 1, Len(x) - 1))
    ELSE x

Stripped(x, strip) ==
    IF strip = "both" THEN WithoutTrailing(WithoutLeading(x))
    ELSE IF strip = "left" THEN WithoutLeading(x)
    ELSE IF strip = "right" THEN WithoutTrailing(x)
    ELSE x

UpperOf(c) ==
    IF \E i \in 11..36 : DigitsLower[i] = c
    THEN DigitsUpper[CHOOSE i \in 11..36 : DigitsLower[i] = c]
    ELSE c

LowerOf(c) ==
    IF \E i \in 11..36 : DigitsUpper[i] = c
    THEN DigitsLower[CHOOSE i \in 11..36 : DigitsUpper[i] = c]
    ELSE c

Cased(text, case) ==
    IF case = "upper" THEN [i \in 1..Len(text) |-> UpperOf(text[i])]
    ELSE IF case = "lower" THEN [i \in 1..Len(text) |-> LowerOf(text[i])]
    ELSE text

\* content shorter than the width, padded on the side(s) of the align; of
\* an odd amount of centre padding the extra filler goes in front
PaddedText(content, r) ==
    IF r.align = "<"
    THEN content \o Copies(r.width - Len(content), r.filler)
    ELSE IF r.align = ">"
    THEN Copies(r.width - Len(content), r.filler) \o content
    ELSE Copies((r.width + 1 - Len(content)) \div 2, r.filler)
             \o content
             \o Copies((r.width - Len(content)) \div 2, r.filler)

\* what the general mode makes of the (stripped) content
SizedText(content, r) ==
    IF r.width = 0 THEN Cased(content, r.case)
    ELSE IF Len(content) > r.width /\ r.overflow # NUL
    THEN Copies(r.width, r.overflow)
    ELSE IF Len(content) > r.width
    THEN Cased(SubSeq(content, 1, r.width), r.case)
    ELSE Cased(PaddedText(content, r), r.case)

StrReadingsHere ==
    IF TheOptions \in DOMAIN StrReadingsOf THEN StrReadingsOf[TheOptions]
    ELSE {}

PicReadingsHere ==
    IF TheOptions \in DOMAIN PicReadingsOf THEN PicReadingsOf[TheOptions]
    ELSE {}

StringCallOf(x, o) == FieldCall("string") /\ TheString = x /\ TheOptions = o

\* C18: in string general mode with width W > 0 the output always has
\* exactly W characters: content longer than W becomes W copies of the
\* overflow char when one is set and otherwise its first W characters,
\* shorter content is padded with the filler on the side(s) given by align
\* (default '<': filler after the text); with width 0 the content is
\* neither padded nor truncated; "hello world" with width 5 and no
\* overflow char gives "hello".
C18_WidthIsExact ==
    /\ FieldCall("string") =>
          \A r \in StrReadingsHere :
              /\ r.strip \in {"none", "both"} => out.err = NoError
              /\ out.err = NoError =>
                    /\ out.s = SizedText(Stripped(TheString, r.strip), r)
                    /\ r.width > 0 => Len(out.s) = r.width
    /\ StringCallOf(<<"h", "e", "l", "l", "o", " ", "w", "o", "r", "l", "d">>,
                    <<"5">>)
          => out = Ok(<<"h", "e", "l", "l", "o">>)

C18_Witness ==
    /\ StringCallOf(<<"h", "i">>, <<"=", "5", "=", ".", ">", "#", "U">>)
    /\ out = Ok(<<".", ".", "H", "I", ".">>)

\* C19: the string strip flag accepts the three forms 's', 'sL' and 'sR':
\* 's' removes leading and trailing spaces, 'sL' only leading spaces, 'sR'
\* only trailing spaces, each rendering successfully, and stripping is
\* applied before the width, overflow and truncation steps.
C19_StripForms ==
    FieldCall("string") =>
        \A r \in StrReadingsHere :
            r.strip # "none" =>
                out = Ok(SizedText(Stripped(TheString, r.strip), r))

\* the pattern with its i-th placeholder replaced by the i-th character of
\* the value, or by the filler where the value has no i-th character
Stamped(x, r) ==
    [i \in 1..Len(r.pattern) |->
        IF r.pattern[i] # r.placeholder THEN r.pattern[i]
        ELSE IF Cardinality({k \in 1..i : r.pattern[k] = r.placeholder})
                    <= Len(x)
        THEN x[Cardinality({k \in 1..i : r.pattern[k] = r.placeholder})]
        ELSE r.filler]

\* C20: in picture mode (options starting with '@', then optional '='
\* placeholder and '<' filler) the output has the length of the pattern:
\* the i-th placeholder of the pattern is replaced by the i-th character of
\* the value, or by the filler once the value is exhausted, every other
\* pattern character is copied unchanged, and value characters beyond the
\* number of placeholders are dropped; placeholder defaults to '#' and
\* filler to space.
C20_PictureStamps ==
    FieldCall("string") =>
        \A r \in PicReadingsHere :
            /\ out.err = NoError
            /\ Len(out.s) = Len(r.pattern)
            /\ out.s = Stamped(TheString, r)

C20_Witness ==
    /\ StringCallOf(<<"h", "i">>,
                    <<"@", "=", "x", "<", ".", "x", "-", "#", "x">>)
    /\ out = Ok(<<"h", "-", "#", "i">>)

(***************************************************************************)
(* The floating point options, read as a regular expression: an optional  *)
(* '+', any number of digits, optionally a '.' and any number of digits,   *)
(* optionally 'f' or 'g'.                                                  *)
(***************************************************************************)
AfterFraction(o, P) == P \cup AfterDigits(o, AfterChar(o, P, "."))

InDoubleGrammar(o) ==
    (Len(o) + 1) \in
        AfterOneOf(o,
                   AfterFraction(o, AfterDigits(o, AfterOneOf(o, {1}, {"+"}))),
                   {"f", "g"})

EndsInConversion(o) == Len(o) > 0 /\ o[Len(o)] \in {"f", "g"}

\* '%', the options, and 'f' when the options name no conversion
DirectiveFor(o) ==
    IF EndsInConversion(o) THEN <<"%">> \o o ELSE <<"%">> \o o \o <<"f">>

TheDouble == BoundValue(<<"n">>).str

\* C21: the floating point formatter accepts an option text exactly when it
\* is an optional '+', any number of digits, optionally a '.' with any
\* number of digits, and optionally 'f' or 'g', and fails with "Invalid
\* floating point formatting options" otherwise; for an accepted text the
\* printf directive
\* is '%' followed by the options, with 'f' appended exactly when the
\* options do not end in 'f' or 'g' (empty options give "%f").
C21_FloatOptionsChecked ==
    FieldCall("double") =>
        IF InDoubleGrammar(TheOptions)
        THEN out = Ok(Snprintf(DirectiveFor(TheOptions), TheDouble))
        ELSE out = [err |-> ErrInvalidFloat, s |-> <<>>]

C21_Witness ==
    /\ FieldCall("double")
    /\ TheOptions = <<"+", "5", ".", "5">>
    /\ TheDouble = <<"3", ".", "5">>
    /\ out = Ok(<<"%", "+", "5", ".", "5", "f", "(", "3", ".", "5", ")">>)

(***************************************************************************)
(* The composite formatters.                                               *)
(***************************************************************************)
TheField == parsed.fs[1]
TheElems == BoundValue(<<"n">>).elems

\* the first subformat of the rendered Field, or the Format of the text dflt
FirstSubformatOr(dflt) ==
    IF Len(TheField.subformats) >= 1 THEN TheField.subformats[1]
    ELSE fmt(dflt).fs

\* one element rendered on its own, bound to '*' in a Dict of its own
ElementAlone(x) ==
    format(FirstSubformatOr(<<"{", "*", "}">>), DictBind(NewDict, <<"*">>, x))

\* the texts with sep between each two of them
RECURSIVE JoinWith(_, _)
JoinWith(texts, sep) ==
    IF Len(texts) = 0 THEN <<>>
    ELSE IF Len(texts) = 1 THEN texts[1]
    ELSE texts[1] \o sep \o JoinWith(Tail(texts), sep)

\* how many times sep occurs in text
Occurrences(text, sep) ==
    Cardinality({i \in 1..(Len(text) - Len(sep) + 1) :
                    SubSeq(text, i, i + Len(sep) - 1) = sep})

\* C22: a sequence of n elements is rendered as the n element renderings in
\* order, each made by the first subformat (or "{*}" when there is none)
\* with the element bound to '*', and the options string is written between
\* each two consecutive elements: n-1 separators, none after the last, the
\* empty string for n = 0 and the lone rendering for n = 1.
C22_SequenceJoined ==
    (/\ FieldCall("sequence")
     /\ \A i \in 1..Len(TheElems) : ElementAlone(TheElems[i]).err = NoError)
    =>
        /\ out = Ok(JoinWith([i \in 1..Len(TheElems) |->
                                 ElementAlone(TheElems[i]).s],
                             TheOptions))
        /\ Len(TheElems) = 0 => out = Ok(<<>>)
        /\ Len(TheElems) = 1 => out = ElementAlone(TheElems[1])

C22_Witness ==
    /\ FieldCall("sequence")
    /\ TheOptions = <<",", ">">>
    /\ Len(TheField.subformats) = 1
    /\ TheElems = <<IntValue(1), IntValue(2), IntValue(3)>>
    /\ out = Ok(<<"<", "1", ">", ",", ">", "<", "2", ">", ",", ">",
                  "<", "3", ">">>)
    /\ Occurrences(out.s, TheOptions) = 2

ContainerCall == \E k \in ContainerKinds : FieldCall(k)
TheKind == BoundValue(<<"n">>).type

\* the body of a container on its own: the first subformat, or the default
\* one of the kind, rendered with the elements bound to 'c'
BodyAlone ==
    format(FirstSubformatOr(<<"{", "c", ":">> \o ContainerSep(TheKind)
                                \o <<"}">>),
           DictBind(NewDict, <<"c">>, SequenceValue(TheElems)))

\* the two places an options text can be halved at
Halves(o) == {Len(o) \div 2, (Len(o) + 1) \div 2}

\* C23: a container rendered with non-empty options o gives open + body +
\* close, where open is the first half of o and close is the remainder of
\* o, so that open followed by close is o itself, for o of even and of odd
\* length.
C23_MarkersSplitOptions ==
    (ContainerCall /\ TheOptions # <<>> /\ BodyAlone.err = NoError) =>
        \E h \in Halves(TheOptions) :
            out = Ok(SubSeq(TheOptions, 1, h) \o BodyAlone.s
                         \o SubSeq(TheOptions, h + 1, Len(TheOptions)))

\* the default rendering of an element, a key or a value
Plain(x) == toString(x, Field(<<"*">>, <<>>)).s

\* a map entry as "key -> value"
EntryText(e) ==
    Plain(e.elems[1]) \o <<" ", "-", ">", " ">> \o Plain(e.elems[2])

DefaultCall(kind) ==
    FieldCall(kind) /\ TheOptions = <<>> /\ TheField.subformats = <<>>

\* the elements between open and close, with sep between each two
Bracketed(open, texts, sep, close) ==
    Ok(open \o JoinWith(texts, sep) \o close)

PlainElements == [i \in 1..Len(TheElems) |-> Plain(TheElems[i])]
PlainEntries == [i \in 1..Len(TheElems) |-> EntryText(TheElems[i])]

\* C24 as stated: with empty options and no subformat a vector is rendered
\* between '[' and ']', a list between '(' and ')', a set between '{' and
\* '}', each of the three with comma-space between its elements, and a map
\* between '{|' and '|}' with its entries as "key -> value" joined by
\* comma-space.
C24_ListJoinedByCommaSpace ==
    /\ DefaultCall("vector") =>
          out = Bracketed(<<"[">>, PlainElements, <<",", " ">>, <<"]">>)
    /\ DefaultCall("list") =>
          out = Bracketed(<<"(">>, PlainElements, <<",", " ">>, <<")">>)
    /\ DefaultCall("set") =>
          out = Bracketed(<<"{">>, PlainElements, <<",", " ">>, <<"}">>)
    /\ DefaultCall("map") =>
          out = Bracketed(<<"{", "|">>, PlainEntries, <<",", " ">>,
                          <<"|", "}">>)

\* C24, amended: as above, except that a list joins its elements with a
\* single space.
C24_DefaultMarkers ==
    /\ DefaultCall("vector") =>
          out = Bracketed(<<"[">>, PlainElements, <<",", " ">>, <<"]">>)
    /\ DefaultCall("list") =>
          out = Bracketed(<<"(">>, PlainElements, <<" ">>, <<")">>)
    /\ DefaultCall("set") =>
          out = Bracketed(<<"{">>, PlainElements, <<",", " ">>, <<"}">>)
    /\ DefaultCall("map") =>
          out = Bracketed(<<"{", "|">>, PlainEntries, <<",", " ">>,
                          <<"|", "}">>)

C24_Witness ==
    /\ DefaultCall("list")
    /\ TheElems = <<IntValue(1), IntValue(2), IntValue(3)>>
    /\ out = Ok(<<"(", "1", " ", "2", " ", "3", ")">>)

\* the names a composite formatter binds for its subformat
SyntheticNames(type) ==
    IF type = "sequence" THEN {<<"*">>}
    ELSE IF type = "pair" THEN {<<"*", "1">>, <<"*", "2">>}
    ELSE {<<"c">>}

CompositeCall == FieldCall("sequence") \/ FieldCall("pair") \/ ContainerCall

\* whether the formatter renders the subformat of the Field at all: a
\* sequence does so once for each element
SubformatRendered ==
    /\ Len(TheField.subformats) >= 1
    /\ TheKind = "sequence" => Len(TheElems) >= 1

\* the name of the first dynamic Field of a Format, <<>> when it has none
FirstDynamicName(fs) ==
    IF \E i \in 1..Len(fs) : IsDynamic(fs[i])
    THEN fs[CHOOSE i \in 1..Len(fs) :
                /\ IsDynamic(fs[i])
                /\ \A j \in 1..(i - 1) : ~IsDynamic(fs[j])].name
    ELSE <<>>

\* C26: a subformat is rendered against a Dict that holds the synthetic
\* names only ('*' for a sequence element, '*1' and '*2' for a pair, 'c' for
\* the body of a container): a rendered subformat that reads any other
\* name, one bound in the caller's Dict included, fails with "Field not
\* present"; and the caller's Dict after the render is the Dict the
\* caller's binds built, nothing added, removed or changed.
C26_SubformatSeesSyntheticNamesOnly ==
    CompositeCall =>
        /\ (/\ SubformatRendered
            /\ FirstDynamicName(TheField.subformats[1]) # <<>>
            /\ FirstDynamicName(TheField.subformats[1])
                   \notin SyntheticNames(TheKind))
           => out = [err |-> ErrFieldNotPresent, s |-> <<>>]
        /\ fd = Replay(log, Len(log), {})
        /\ BoundNames \subseteq {<<"n">>, <<"a">>}

C26_Witness ==
    /\ FieldCall("vector")
    /\ <<"a">> \in BoundNames
    /\ BoundValue(<<"a">>) = IntValue(7)
    /\ TheElems = <<IntValue(1)>>
    /\ TheField.subformats = <<fmt(<<"{", "a", "}">>).fs>>
    /\ out = [err |-> ErrFieldNotPresent, s |-> <<>>]

\* no Field of the Format, at any depth, has more than one subformat
RECURSIVE AtMostOneSubformat(_)
AtMostOneSubformat(fs) ==
    \A i \in 1..Len(fs) :
        /\ Len(fs[i].subformats) <= 1
        /\ \A j \in 1..Len(fs[i].subformats) :
              AtMostOneSubformat(fs[i].subformats[j])

\* C25: every Field fmt produces has at most one subformat: after the ':'
\* that starts the subformat, a further ':' is static text of that
\* subformat (or part of a Field nested in it), so "{n:o:A:B}" has the one
\* subformat whose static text is "A:B".
C25_AtMostOneSubformat ==
    Parsed =>
        /\ AtMostOneSubformat(parsed.fs)
        /\ tmpl = TplTwoSubformats =>
              parsed.fs =
                  <<[name |-> <<"n">>, options |-> <<"o">>,
                     subformats |-> << <<Field(<<>>, <<"A", ":", "B">>)>> >>]>>

C25_Witness ==
    /\ Parsed
    /\ tmpl = TplTwoSubformats
    /\ Len(parsed.fs) = 1
    /\ Len(parsed.fs[1].subformats) = 1
    /\ parsed.fs[1].subformats[1][1].options = <<"A", ":", "B">>

\* C27: with filler '0' the output of the integer formatter reads as the
\* number rendered, whatever the alignment and the width: the sign, then
\* zeros, then the digits, and no zero after the least significant digit.
C27_ZerosOnlyAhead ==
    FieldCall("int") =>
        \A r \in IntReadingsHere :
            (/\ r.filler = "0"
             /\ r.group = 0
             /\ r.overflow = NUL
             /\ ValidBase(r))
                => \E k \in 0..r.width :
                      out = Ok(SignOf(TheInt, r.plus) \o Copies(k, "0")
                                   \o DigitsRead(TheInt, r))

\* the decimal digits of the magnitude of n <= 0, computed on the negative
\* side, where the magnitude of every `int` is in range
RECURSIVE MagnitudeDigits(_)
MagnitudeDigits(n) ==
    IF CDiv(n, 10) = 0 THEN <<DigitsLower[(10 * CDiv(n, 10) - n) + 1]>>
    ELSE Append(MagnitudeDigits(CDiv(n, 10)),
                DigitsLower[(10 * CDiv(n, 10) - n) + 1])

\* C28: with empty options every `int`, the most negative one included, is
\* rendered as the decimal digits of its magnitude, after a '-' when it is
\* negative, and every digit character is one of '0'..'9'.
C28_EveryIntInDecimal ==
    (FieldCall("int") /\ TheOptions = <<>>) =>
        /\ out = Ok((IF TheInt < 0 THEN <<"-">> ELSE <<>>)
                        \o MagnitudeDigits(IF TheInt < 0 THEN TheInt
                                           ELSE 0 - TheInt))
        /\ \A i \in 1..Len(out.s) :
              out.s[i] \in DecimalDigits \/ (i = 1 /\ out.s[i] = "-")

\* the widths a centred render is asked for, and the options "=W"
CentreWidths == {4, 5, 8, 9}
CentreOptions(w) == <<"=", DigitsLower[w + 1]>>

\* the number of fillers c the text starts with, and ends with
LeadingCount(text, c) ==
    CHOOSE k \in 0..Len(text) :
        /\ \A i \in 1..k : text[i] = c
        /\ k = Len(text) \/ text[k + 1] # c
TrailingCount(text, c) ==
    CHOOSE k \in 0..Len(text) :
        /\ \A i \in (Len(text) - k + 1)..Len(text) : text[i] = c
        /\ k = Len(text) \/ text[Len(text) - k] # c

\* the integer as the default options write it
PlainInt(x) == SignOf(x, FALSE) \o DigitsOf(Abs(x), 10, FALSE)

\* body with `before` spaces ahead of it and `after` spaces behind it
Centred(before, body, after) ==
    Ok(Copies(before, " ") \o body \o Copies(after, " "))

\* the counts of the fillers at the two ends of a centred, non-empty body
\* differ by one at most
Balanced(text) ==
    (LeadingCount(text, " ") - TrailingCount(text, " ")) \in {-1, 0, 1}

\* C29: with centre alignment the fillers ahead of and behind the body
\* differ by one at most in both formatters; when the padding is odd the
\* integer formatter puts the extra filler behind the number and the string
\* formatter puts it ahead of the text.
C29_CentreSplit ==
    \A w \in CentreWidths :
        /\ (/\ FieldCall("int")
            /\ TheOptions = CentreOptions(w)
            /\ Len(PlainInt(TheInt)) <= w)
           => /\ out = Centred((w - Len(PlainInt(TheInt))) \div 2,
                               PlainInt(TheInt),
                               (w - Len(PlainInt(TheInt)))
                                   - (w - Len(PlainInt(TheInt))) \div 2)
              /\ Balanced(out.s)
              /\ TrailingCount(out.s, " ") >= LeadingCount(out.s, " ")
        /\ (/\ FieldCall("string")
            /\ TheOptions = CentreOptions(w)
            /\ Len(TheString) <= w)
           => /\ out = Centred((w - Len(TheString))
                                   - (w - Len(TheString)) \div 2,
                               TheString,
                               (w - Len(TheString)) \div 2)
              /\ TheString # <<>> =>
                    /\ Balanced(out.s)
                    /\ LeadingCount(out.s, " ") >= TrailingCount(out.s, " ")

C29_Witness ==
    /\ StringCallOf(<<"h", "i">>, <<"=", "5">>)
    /\ out = Ok(<<" ", " ", "h", "i", " ">>)
    /\ LeadingCount(out.s, " ") = TrailingCount(out.s, " ") + 1

Parsing == pc = "parsing"

\* C30: a parse terminates on every template, at any nesting depth, by
\* returning a Format or by raising "'}' expected": every iteration of the
\* outer loop moves the cursor forward by one character at least, and the
\* cursor never passes the terminating zero of the template, also when the
\* template ends with a lone '~' or inside a field.
C30_ParseTerminates ==
    /\ [](parsed.p <= Len(tmpl) + 1)
    /\ [][ParseStep => parsed'.p > parsed.p]_vars
    /\ [](pc = "failed" => parsed.err = ErrCloseExpected)
    /\ [](pc = "parsed" => parsed.err = NoError)
    /\ Parsing ~> (pc \in {"parsed", "failed"})

C30_Witness ==
    /\ pc = "failed"
    /\ tmpl = <<"{", "a", ":", "~">>
    /\ parsed.p = Len(tmpl) + 1
    /\ parsed.err = ErrCloseExpected

=============================================================================
